---- MODULE Spec2Model ----
(***************************************************************************)
(* EventsManager (src/events-manager.js): the recurring-event window       *)
(* calculator, its active-events query and the one-second cache.           *)
(*                                                                         *)
(* Instants are counted in ticks of 1/TicksPerSecond second since          *)
(* 00:00 UTC of the model epoch day (2025-01-01), so that they fit         *)
(* the model checker's integers; a millisecond literal n of the source is  *)
(* written Ms(n).  Calendar arithmetic follows ECMAScript's Date.          *)
(***************************************************************************)
EXTENDS Integers, Sequences, FiniteSets, TLC

VARIABLES
    eventsConfig,        \* this.eventsConfig: Null or [repeating_events, one_time_events]
    cachedActiveEvents,  \* this.cachedActiveEvents: Null or <<the identity of an array>>
    lastUpdateTime,      \* this.lastUpdateTime: Null or <<an instant>>
    heap,                \* the arrays still referenced, by identity:
                         \* [items, computedFor], computedFor the instant they were built for
    call,                \* the last call made on the calculator and what it returned
    pc,                  \* "ready" | "done" (pure-function runs) | "live" (the manager)
    localStorage,        \* window.localStorage: the keys set, each with its string
    now,                 \* Date.now() of the page: [s, ms], whole seconds and milliseconds
    imageCache,          \* the Cache 'image-cache-v1': its requests, oldest first
    fetchEvents          \* the fetch events of the service worker: where each handler stands

vars == <<eventsConfig, cachedActiveEvents, lastUpdateTime, heap, call, pc,
          localStorage, now, imageCache, fetchEvents>>

\* src/events-manager.js touches none of the state of src/tracker/cache-manager.js
cacheManager == <<localStorage, now, imageCache, fetchEvents>>

\* null and undefined; a property an object does not have is a field the record lacks
Null == <<>>
Has(obj, field) == field \in DOMAIN obj

----------------------------------------------------------------------------
(* Bounds of the model *)

TicksPerSecond == 2      \* resolution of the instants
NumRefDays == 80         \* reference days, from 2025-12-20 on
MaxWeeklyDuration == 8   \* durationDays of the weekly definitions: 1..8

----------------------------------------------------------------------------
(* Time values: ECMAScript Date arithmetic, in ticks *)

Ms(n) == (n * TicksPerSecond) \div 1000

TicksPerMinute == 60 * TicksPerSecond
TicksPerHour == 60 * TicksPerMinute
TicksPerDay == 24 * TicksPerHour

\* Day number (days since 1970-01-01) of 1 January of year y
DayFromYear(y) ==
    365 * (y - 1970) + ((y - 1969) \div 4) - ((y - 1901) \div 100)
        + ((y - 1601) \div 400)

InLeapYear(y) ==
    IF y % 4 # 0 THEN FALSE
    ELSE IF y % 100 # 0 THEN TRUE
    ELSE y % 400 = 0

RECURSIVE YearDown(_, _)
YearDown(y, day) == IF DayFromYear(y) <= day THEN y ELSE YearDown(y - 1, day)

\* The year a day number falls in: the largest y with DayFromYear(y) <= day
YearFromDay(day) == YearDown(1970 + (day \div 365) + 1, day)

\* Days before the first of month m (0..11) within its year
MonthStart(m, leap) ==
    LET l == IF leap THEN 1 ELSE 0
    IN  CASE m = 0 -> 0
          [] m = 1 -> 31
          [] m = 2 -> 59 + l
          [] m = 3 -> 90 + l
          [] m = 4 -> 120 + l
          [] m = 5 -> 151 + l
          [] m = 6 -> 181 + l
          [] m = 7 -> 212 + l
          [] m = 8 -> 243 + l
          [] m = 9 -> 273 + l
          [] m = 10 -> 304 + l
          [] m = 11 -> 334 + l

MonthFromDay(day) ==
    LET y == YearFromDay(day)
        d == day - DayFromYear(y)
        leap == InLeapYear(y)
    IN  CHOOSE m \in 0..11 :
            /\ MonthStart(m, leap) <= d
            /\ (m = 11 \/ d < MonthStart(m + 1, leap))

DateFromDay(day) ==
    LET y == YearFromDay(day)
    IN  day - DayFromYear(y) - MonthStart(MonthFromDay(day), InLeapYear(y)) + 1

\* MakeDay: year, month index and date may lie outside their ranges
MakeDay(year, month, date) ==
    LET ym == year + (month \div 12)
        mn == month % 12
    IN  DayFromYear(ym) + MonthStart(mn, InLeapYear(ym)) + date - 1

MakeTime(h, mi, s, ms) ==
    h * TicksPerHour + mi * TicksPerMinute + s * TicksPerSecond + Ms(ms)

EpochDay == DayFromYear(2025)

\* Day number and time within the day of an instant
DayOf(t) == EpochDay + (t \div TicksPerDay)
TimeWithinDay(t) == t % TicksPerDay

MakeDate(day, time) == (day - EpochDay) * TicksPerDay + time

\* Date.UTC(year, month, date, hours, minutes, seconds, ms)
DateUTC(y, m, d, h, mi, s, ms) == MakeDate(MakeDay(y, m, d), MakeTime(h, mi, s, ms))

getUTCFullYear(t) == YearFromDay(DayOf(t))
getUTCMonth(t) == MonthFromDay(DayOf(t))
getUTCDate(t) == DateFromDay(DayOf(t))
getUTCDay(t) == (DayOf(t) + 4) % 7

\* date.setUTCDate(dt): the day dt of the date's month, same time of day
setUTCDate(t, dt) ==
    MakeDate(MakeDay(getUTCFullYear(t), getUTCMonth(t), dt), TimeWithinDay(t))

\* date.setUTCHours(h, mi, s, ms): the same day, at the given time
setUTCHours(t, h, mi, s, ms) == MakeDate(DayOf(t), MakeTime(h, mi, s, ms))

----------------------------------------------------------------------------
(* Window computation *)

DayStrings ==
    <<"01", "02", "03", "04", "05", "06", "07", "08", "09", "10",
      "11", "12", "13", "14", "15", "16", "17", "18", "19", "20",
      "21", "22", "23", "24", "25", "26", "27", "28", "29", "30", "31">>

\* parseInt(baseDate, 10), for the two-digit day strings of the configuration
parseInt(s) == CHOOSE n \in 1..31 : DayStrings[n] = s

daysOfWeek ==
    <<"Sunday", "Monday", "Tuesday", "Wednesday", "Thursday", "Friday", "Saturday">>

\* daysOfWeek.indexOf(baseDate): 0..6, or -1
indexOf(baseDate) ==
    IF \E i \in 1..7 : daysOfWeek[i] = baseDate
    THEN (CHOOSE i \in 1..7 : daysOfWeek[i] = baseDate) - 1
    ELSE -1

\* What a window computation gives: a window, or a thrown Error
Window(s, e) == [threw |-> FALSE, start |-> s, end |-> e]
Throw == [threw |-> TRUE]

\* new Date(Date.UTC(year, month, dayOfMonth, 8, 0, 0, 0))
EventStartMidnight(year, month, dayOfMonth) == DateUTC(year, month, dayOfMonth, 0, 0, 0, 0)
EventStart(year, month, dayOfMonth) == DateUTC(year, month, dayOfMonth, 8, 0, 0, 0)

\* d = new Date(t); d.setUTCDate(d.getUTCDate() + durationDays)
PlusDays(t, durationDays) == setUTCDate(t, getUTCDate(t) + durationDays)

calculateMonthlyEventLE(baseDate, durationDays, referenceDate) ==
    LET dayOfMonth == parseInt(baseDate)
        currentDate == referenceDate
        currentYear == getUTCFullYear(currentDate)
        currentMonth == getUTCMonth(currentDate)
        currentDay == getUTCDate(currentDate)
        potentialStart == EventStart(currentYear, currentMonth, dayOfMonth)
        potentialEnd == PlusDays(potentialStart, durationDays)
        startDate ==
            IF currentDay <= dayOfMonth
            THEN EventStart(currentYear, currentMonth, dayOfMonth)
            ELSE IF currentDate >= potentialStart /\ currentDate < potentialEnd
                 THEN potentialStart
                 ELSE EventStart(currentYear, currentMonth + 1, dayOfMonth)
    IN  Window(startDate, PlusDays(startDate, durationDays))
calculateMonthlyEvent(baseDate, durationDays, referenceDate) ==
    LET dayOfMonth == parseInt(baseDate)
        currentDate == referenceDate
        currentYear == getUTCFullYear(currentDate)
        currentMonth == getUTCMonth(currentDate)
        currentDay == getUTCDate(currentDate)
        potentialStart == EventStart(currentYear, currentMonth, dayOfMonth)
        potentialEnd == PlusDays(potentialStart, durationDays)
        startDate ==
            IF currentDay < dayOfMonth
            THEN EventStart(currentYear, currentMonth, dayOfMonth)
            ELSE IF currentDate >= potentialStart /\ currentDate < potentialEnd
                 THEN potentialStart
                 ELSE EventStart(currentYear, currentMonth + 1, dayOfMonth)
    IN  Window(startDate, PlusDays(startDate, durationDays))

\* daysSinceTarget > 0 && daysSinceTarget <= durationDays
LookBackStrict(daysSinceTarget, durationDays) ==
    daysSinceTarget > 0 /\ daysSinceTarget < durationDays
LookBack(daysSinceTarget, durationDays) ==
    daysSinceTarget > 0 /\ daysSinceTarget <= durationDays

\* The previous occurrence: it started daysSinceTarget days ago at 08:00 UTC
lastWeekWindow(currentDate, daysSinceTarget, durationDays) ==
    LET lastWeekStart ==
            setUTCHours(setUTCDate(currentDate, getUTCDate(currentDate) - daysSinceTarget),
                        8, 0, 0, 0)
    IN  Window(lastWeekStart, PlusDays(lastWeekStart, durationDays))

\* The next occurrence; the target day today or earlier this week moves a week on
nextWindowSameWeek(currentDate, targetDay, durationDays) ==
    LET daysUntilTarget == targetDay - getUTCDay(currentDate)
        startDate ==
            setUTCHours(setUTCDate(currentDate, getUTCDate(currentDate) + daysUntilTarget),
                        8, 0, 0, 0)
    IN  Window(startDate, PlusDays(startDate, durationDays))
nextWindow(currentDate, targetDay, durationDays) ==
    LET d0 == targetDay - getUTCDay(currentDate)
        daysUntilTarget == IF d0 <= 0 THEN d0 + 7 ELSE d0
        startDate ==
            setUTCHours(setUTCDate(currentDate, getUTCDate(currentDate) + daysUntilTarget),
                        8, 0, 0, 0)
    IN  Window(startDate, PlusDays(startDate, durationDays))

Contains(w, t) == t >= w.start /\ t < w.end

calculateWeeklyEvent(baseDate, durationDays, referenceDate) ==
    LET targetDay == indexOf(baseDate)
        currentDate == referenceDate
        currentDay == getUTCDay(currentDate)
        daysSinceTarget == (currentDay - targetDay + 7) % 7
        last == lastWeekWindow(currentDate, daysSinceTarget, durationDays)
    IN  IF targetDay = -1 THEN Throw
        ELSE IF LookBack(daysSinceTarget, durationDays) /\ Contains(last, currentDate)
             THEN last
             ELSE nextWindow(currentDate, targetDay, durationDays)

calculateRepeatingEventDates(event, referenceDate) ==
    IF event.modifier = "monthly"
    THEN calculateMonthlyEvent(event.baseDate, event.durationDays, referenceDate)
    ELSE IF event.modifier = "weekly"
         THEN calculateWeeklyEvent(event.baseDate, event.durationDays, referenceDate)
         ELSE Throw

----------------------------------------------------------------------------
(* Countdown *)

\* a countdown whose hours are not reduced by the days
calculateCountdownTotalHours(endDate, currentDate) ==
    LET timeRemaining == endDate - currentDate
    IN  IF timeRemaining <= 0
        THEN [days |-> 0, hours |-> 0, minutes |-> 0, seconds |-> 0, totalMs |-> 0]
        ELSE [days |-> timeRemaining \div Ms(1000 * 60 * 60 * 24),
              hours |-> timeRemaining \div Ms(1000 * 60 * 60),
              minutes |-> (timeRemaining % Ms(1000 * 60 * 60)) \div Ms(1000 * 60),
              seconds |-> (timeRemaining % Ms(1000 * 60)) \div Ms(1000),
              totalMs |-> timeRemaining]

\* countdown.totalMs and timeRemaining are counted in ticks
calculateCountdown(endDate, currentDate) ==
    LET timeRemaining == endDate - currentDate
    IN  IF timeRemaining <= 0
        THEN [days |-> 0, hours |-> 0, minutes |-> 0, seconds |-> 0, totalMs |-> 0]
        ELSE [days |-> timeRemaining \div Ms(1000 * 60 * 60 * 24),
              hours |-> (timeRemaining % Ms(1000 * 60 * 60 * 24)) \div Ms(1000 * 60 * 60),
              minutes |-> (timeRemaining % Ms(1000 * 60 * 60)) \div Ms(1000 * 60),
              seconds |-> (timeRemaining % Ms(1000 * 60)) \div Ms(1000),
              totalMs |-> timeRemaining]

\* The text is kept as its parts: "<a><ua> <b><ub>", or "<a><ua>" alone
formatCountdown(countdown) ==
    IF countdown.days > 0
    THEN [a |-> countdown.days, ua |-> "d", b |-> countdown.hours, ub |-> "h"]
    ELSE IF countdown.hours > 0
    THEN [a |-> countdown.hours, ua |-> "h", b |-> countdown.minutes, ub |-> "m"]
    ELSE IF countdown.minutes > 0
    THEN [a |-> countdown.minutes, ua |-> "m", b |-> countdown.seconds, ub |-> "s"]
    ELSE [a |-> countdown.seconds, ua |-> "s"]

----------------------------------------------------------------------------
(* getActiveEvents *)

\* a manager that never takes a definition as switched off
NeverInactive(event) == FALSE

\* event.active === false
Inactive(event) == Has(event, "active") /\ event.active = FALSE

\* One pass of repeating_events.forEach: the entry pushed for the event, if any
RepeatingEntry(event, currentDate) ==
    LET w == calculateRepeatingEventDates(event, currentDate)
        countdown == calculateCountdown(w.end, currentDate)
    IN  IF Inactive(event) \/ w.threw \/ ~Contains(w, currentDate)
        THEN <<>>
        ELSE << [title |-> event.title, type |-> "repeating", modifier |-> event.modifier,
                 start |-> w.start, end |-> w.end, countdown |-> countdown,
                 countdownText |-> formatCountdown(countdown)] >>

\* One pass of one_time_events.forEach; start and end are kept as instants
OneTimeEntry(event, currentDate) ==
    LET countdown == calculateCountdown(event.end, currentDate)
    IN  IF Inactive(event) \/ ~(currentDate >= event.start /\ currentDate < event.end)
        THEN <<>>
        ELSE << [title |-> event.title, type |-> "one-time",
                 start |-> event.start, end |-> event.end, countdown |-> countdown,
                 countdownText |-> formatCountdown(countdown)] >>

\* a forEach that stops at the first definition whose window computation throws
RECURSIVE RepeatingEntriesUntilThrow(_, _)
RepeatingEntriesUntilThrow(events, currentDate) ==
    IF events = <<>> THEN <<>>
    ELSE IF ~Inactive(Head(events))
            /\ calculateRepeatingEventDates(Head(events), currentDate).threw
    THEN <<>>
    ELSE RepeatingEntry(Head(events), currentDate)
         \o RepeatingEntriesUntilThrow(Tail(events), currentDate)

RECURSIVE RepeatingEntries(_, _)
RepeatingEntries(events, currentDate) ==
    IF events = <<>> THEN <<>>
    ELSE RepeatingEntry(Head(events), currentDate) \o RepeatingEntries(Tail(events), currentDate)

RECURSIVE OneTimeEntries(_, _)
OneTimeEntries(events, currentDate) ==
    IF events = <<>> THEN <<>>
    ELSE OneTimeEntry(Head(events), currentDate) \o OneTimeEntries(Tail(events), currentDate)

\* Array.prototype.sort with (a, b) => a.countdown.totalMs - b.countdown.totalMs: stable
\* a sort that puts an entry before the entries it ties with
RECURSIVE InsertBeforeTies(_, _)
InsertBeforeTies(sorted, x) ==
    IF sorted = <<>> THEN <<x>>
    ELSE IF Head(sorted).countdown.totalMs < x.countdown.totalMs
         THEN <<Head(sorted)>> \o InsertBeforeTies(Tail(sorted), x)
         ELSE <<x>> \o sorted

RECURSIVE InsertByTotalMs(_, _)
InsertByTotalMs(sorted, x) ==
    IF sorted = <<>> THEN <<x>>
    ELSE IF Head(sorted).countdown.totalMs <= x.countdown.totalMs
         THEN <<Head(sorted)>> \o InsertByTotalMs(Tail(sorted), x)
         ELSE <<x>> \o sorted

RECURSIVE SortByTotalMs(_)
SortByTotalMs(list) ==
    IF list = <<>> THEN <<>>
    ELSE InsertByTotalMs(SortByTotalMs(SubSeq(list, 1, Len(list) - 1)), list[Len(list)])

\* The list getActiveEvents builds when it does not answer from the cache
ComputeActiveEvents(config, currentDate) ==
    SortByTotalMs(
        (IF Has(config, "repeating_events")
         THEN RepeatingEntries(config.repeating_events, currentDate) ELSE <<>>)
        \o
        (IF Has(config, "one_time_events")
         THEN OneTimeEntries(config.one_time_events, currentDate) ELSE <<>>))

\* The cache check: not forced, a cached list, and timeSinceUpdate < 1000
\* (a cached instant of 0 ms, 1970-01-01, lies outside the instants of the model)
CacheHitInclusive(currentDate, forceRefresh) ==
    /\ ~forceRefresh
    /\ cachedActiveEvents # Null
    /\ lastUpdateTime # Null
    /\ currentDate - lastUpdateTime[1] <= Ms(1000)
CacheHit(currentDate, forceRefresh) ==
    /\ ~forceRefresh
    /\ cachedActiveEvents # Null
    /\ lastUpdateTime # Null
    /\ currentDate - lastUpdateTime[1] < Ms(1000)

\* Arrays are compared by identity only while something refers to them: the heap
\* holds the arrays the cache or the last returned value refers to
Referenced(cached, c) ==
    (IF cached = Null THEN {} ELSE {cached[1]})
        \cup (IF c.op = "getActiveEvents" THEN {c.result} ELSE {})
Collect(h, cached, c) == [i \in Referenced(cached, c) |-> h[i]]
NewArray == CHOOSE i \in 1..(Cardinality(DOMAIN heap) + 1) : i \notin DOMAIN heap

GetActiveEvents(currentDate, forceRefresh) ==
    LET returned(array) == [op |-> "getActiveEvents", currentDate |-> currentDate,
                            forceRefresh |-> forceRefresh, result |-> array]
    IN
    /\ IF eventsConfig = Null
       THEN /\ call' = returned(NewArray)
            /\ UNCHANGED <<cachedActiveEvents, lastUpdateTime>>
            /\ heap' = Collect(heap @@ (NewArray :> [items |-> <<>>, computedFor |-> currentDate]),
                               cachedActiveEvents', call')
       ELSE IF CacheHit(currentDate, forceRefresh)
       THEN /\ call' = returned(cachedActiveEvents[1])
            /\ UNCHANGED <<cachedActiveEvents, lastUpdateTime>>
            /\ heap' = Collect(heap, cachedActiveEvents', call')
       ELSE /\ cachedActiveEvents' = <<NewArray>>
            /\ lastUpdateTime' = <<currentDate>>
            /\ call' = returned(NewArray)
            /\ heap' = Collect(heap @@ (NewArray :>
                                   [items |-> ComputeActiveEvents(eventsConfig, currentDate),
                                    computedFor |-> currentDate]),
                               cachedActiveEvents', call')
    /\ UNCHANGED eventsConfig

\* A direct use of the window computation on a definition
CalculateRepeatingEventDates(event, referenceDate) ==
    /\ call' = [op |-> "calculateRepeatingEventDates", event |-> event,
                referenceDate |-> referenceDate,
                result |-> calculateRepeatingEventDates(event, referenceDate)]
    /\ heap' = Collect(heap, cachedActiveEvents, call')
    /\ UNCHANGED <<eventsConfig, cachedActiveEvents, lastUpdateTime>>

----------------------------------------------------------------------------
(* getCalendarForMonth.  The definitions of the model carry no icon: the icon
   of an entry is undefined and is left out *)

StartMarker(event, type, start) ==
    [date |-> getUTCDate(start), fullDate |-> start, title |-> event.title,
     type |-> type, isStart |-> TRUE, isEnd |-> FALSE]
EndMarker(event, type, end) ==
    [date |-> getUTCDate(end), fullDate |-> end, title |-> event.title,
     type |-> type, isStart |-> FALSE, isEnd |-> TRUE]

\* Monthly: the window computed at monthStart; a start before the month is not marked
MonthlyMarkers(event, monthStart, monthEnd) ==
    LET w == calculateRepeatingEventDates(event, monthStart)
    IN  IF w.threw \/ ~(w.end > monthStart /\ w.start <= monthEnd)
        THEN <<>>
        ELSE (IF w.start >= monthStart THEN <<StartMarker(event, "repeating", w.start)>>
              ELSE <<>>)
             \o (IF w.end <= monthEnd THEN <<EndMarker(event, "repeating", w.end)>>
                 ELSE <<>>)

\* The markers of a window whose start or end lies in [monthStart, monthEnd]
MarkersWithin(event, type, start, end, monthStart, monthEnd) ==
    IF ~(end > monthStart /\ start <= monthEnd)
    THEN <<>>
    ELSE (IF start >= monthStart /\ start <= monthEnd
          THEN <<StartMarker(event, type, start)>> ELSE <<>>)
         \o (IF end >= monthStart /\ end <= monthEnd
             THEN <<EndMarker(event, type, end)>> ELSE <<>>)

\* Weekly: while (searchDate <= monthEnd), the window computed at searchDate, then
\* searchDate moves on by 7 days.  An invalid day name throws in the first round,
\* before anything is pushed
RECURSIVE WeeklySearch(_, _, _, _)
WeeklySearch(event, searchDate, monthStart, monthEnd) ==
    IF ~(searchDate <= monthEnd)
    THEN <<>>
    ELSE LET w == calculateRepeatingEventDates(event, searchDate)
         IN  IF w.threw THEN <<>>
             ELSE MarkersWithin(event, "repeating", w.start, w.end, monthStart, monthEnd)
                  \o WeeklySearch(event, setUTCDate(searchDate, getUTCDate(searchDate) + 7),
                                  monthStart, monthEnd)

\* One pass of repeating_events.forEach; a modifier that is neither monthly nor
\* weekly matches no branch and pushes nothing
CalendarRepeating(event, monthStart, monthEnd) ==
    IF Inactive(event) THEN <<>>
    ELSE IF event.modifier = "monthly" THEN MonthlyMarkers(event, monthStart, monthEnd)
    ELSE IF event.modifier = "weekly" THEN WeeklySearch(event, monthStart, monthStart, monthEnd)
    ELSE <<>>

\* One pass of one_time_events.forEach
CalendarOneTime(event, monthStart, monthEnd) ==
    IF Inactive(event) THEN <<>>
    ELSE MarkersWithin(event, "one-time", event.start, event.end, monthStart, monthEnd)

RECURSIVE CalendarRepeatingAll(_, _, _)
CalendarRepeatingAll(events, monthStart, monthEnd) ==
    IF events = <<>> THEN <<>>
    ELSE CalendarRepeating(Head(events), monthStart, monthEnd)
         \o CalendarRepeatingAll(Tail(events), monthStart, monthEnd)

RECURSIVE CalendarOneTimeAll(_, _, _)
CalendarOneTimeAll(events, monthStart, monthEnd) ==
    IF events = <<>> THEN <<>>
    ELSE CalendarOneTime(Head(events), monthStart, monthEnd)
         \o CalendarOneTimeAll(Tail(events), monthStart, monthEnd)

getCalendarForMonth(config, year, month) ==
    LET monthStart == DateUTC(year, month, 1, 0, 0, 0, 0)
        monthEnd == DateUTC(year, month + 1, 0, 23, 59, 59, 0)
    IN  IF config = Null THEN <<>>
        ELSE (IF Has(config, "repeating_events")
              THEN CalendarRepeatingAll(config.repeating_events, monthStart, monthEnd)
              ELSE <<>>)
             \o (IF Has(config, "one_time_events")
                 THEN CalendarOneTimeAll(config.one_time_events, monthStart, monthEnd)
                 ELSE <<>>)

GetCalendarForMonth(year, month) ==
    /\ call' = [op |-> "getCalendarForMonth", year |-> year, month |-> month,
                result |-> getCalendarForMonth(eventsConfig, year, month)]
    /\ heap' = Collect(heap, cachedActiveEvents, call')
    /\ UNCHANGED <<eventsConfig, cachedActiveEvents, lastUpdateTime>>

----------------------------------------------------------------------------
(* getUpcomingEvents.  The definitions of the model carry no icon, image or
   description: icon is undefined and left out, image is null, description '' *)

\* The host's local time is UTC plus the offset of its time zone: no offset for
\* UTC; Europe/Berlin is an hour ahead until 2026-03-29T01:00Z and two hours from
\* then on; Australia/Sydney eleven hours until 2026-04-04T16:00Z, then ten
LocalOffset(timeZone, t) ==
    IF timeZone = "Europe/Berlin"
    THEN (IF t < DateUTC(2026, 2, 29, 1, 0, 0, 0) THEN 1 ELSE 2) * TicksPerHour
    ELSE IF timeZone = "Australia/Sydney"
    THEN (IF t < DateUTC(2026, 3, 4, 16, 0, 0, 0) THEN 11 ELSE 10) * TicksPerHour
    ELSE 0

\* endDate.setDate(endDate.getDate() + daysAhead) works on the host's local
\* calendar: the same local time of day, daysAhead days on
setDate(t, timeZone, daysAhead) ==
    LET local == t + LocalOffset(timeZone, t) + daysAhead * TicksPerDay
    IN  local - LocalOffset(timeZone, local - LocalOffset(timeZone, t))

\* One pass of repeating_events.forEach
UpcomingRepeating(event, currentDate, endDate) ==
    LET w == calculateRepeatingEventDates(event, currentDate)
    IN  IF Inactive(event) \/ w.threw \/ ~(w.start < endDate)
        THEN <<>>
        ELSE << [title |-> event.title, image |-> Null, description |-> "",
                 type |-> "repeating", modifier |-> event.modifier,
                 start |-> w.start, end |-> w.end,
                 isActive |-> (currentDate >= w.start /\ currentDate < w.end)] >>

\* One pass of one_time_events.forEach
UpcomingOneTime(event, currentDate, endDate) ==
    IF Inactive(event) \/ ~(event.start < endDate /\ event.end > currentDate)
    THEN <<>>
    ELSE << [title |-> event.title, image |-> Null, description |-> "",
             type |-> "one-time", start |-> event.start, end |-> event.end,
             isActive |-> (currentDate >= event.start /\ currentDate < event.end)] >>

RECURSIVE UpcomingRepeatingAll(_, _, _)
UpcomingRepeatingAll(events, currentDate, endDate) ==
    IF events = <<>> THEN <<>>
    ELSE UpcomingRepeating(Head(events), currentDate, endDate)
         \o UpcomingRepeatingAll(Tail(events), currentDate, endDate)

RECURSIVE UpcomingOneTimeAll(_, _, _)
UpcomingOneTimeAll(events, currentDate, endDate) ==
    IF events = <<>> THEN <<>>
    ELSE UpcomingOneTime(Head(events), currentDate, endDate)
         \o UpcomingOneTimeAll(Tail(events), currentDate, endDate)

\* Array.prototype.sort with (a, b) => a.start.getTime() - b.start.getTime(): stable
RECURSIVE InsertByStart(_, _)
InsertByStart(sorted, x) ==
    IF sorted = <<>> THEN <<x>>
    ELSE IF Head(sorted).start <= x.start
         THEN <<Head(sorted)>> \o InsertByStart(Tail(sorted), x)
         ELSE <<x>> \o sorted

RECURSIVE SortByStart(_)
SortByStart(list) ==
    IF list = <<>> THEN <<>>
    ELSE InsertByStart(SortByStart(SubSeq(list, 1, Len(list) - 1)), list[Len(list)])

getUpcomingEvents(config, currentDate, daysAhead, timeZone) ==
    LET endDate == setDate(currentDate, timeZone, daysAhead)
    IN  IF config = Null THEN <<>>
        ELSE SortByStart(
                 (IF Has(config, "repeating_events")
                  THEN UpcomingRepeatingAll(config.repeating_events, currentDate, endDate)
                  ELSE <<>>)
                 \o (IF Has(config, "one_time_events")
                     THEN UpcomingOneTimeAll(config.one_time_events, currentDate, endDate)
                     ELSE <<>>))

\* a getUpcomingEvents that drops the cached list
GetUpcomingEventsDroppingCache(currentDate, daysAhead, timeZone) ==
    /\ call' = [op |-> "getUpcomingEvents", currentDate |-> currentDate,
                daysAhead |-> daysAhead, timeZone |-> timeZone,
                result |-> getUpcomingEvents(eventsConfig, currentDate, daysAhead,
                                             timeZone)]
    /\ cachedActiveEvents' = Null
    /\ lastUpdateTime' = Null
    /\ heap' = Collect(heap, cachedActiveEvents', call')
    /\ UNCHANGED eventsConfig

GetUpcomingEvents(currentDate, daysAhead, timeZone) ==
    /\ call' = [op |-> "getUpcomingEvents", currentDate |-> currentDate,
                daysAhead |-> daysAhead, timeZone |-> timeZone,
                result |-> getUpcomingEvents(eventsConfig, currentDate, daysAhead,
                                             timeZone)]
    /\ heap' = Collect(heap, cachedActiveEvents, call')
    /\ UNCHANGED <<eventsConfig, cachedActiveEvents, lastUpdateTime>>

----------------------------------------------------------------------------
(* isEventActive: getActiveEvents(currentDate), not forced, then some() *)

some(activeEvents, eventTitle) ==
    \E i \in 1..Len(activeEvents) : activeEvents[i].title = eventTitle

IsEventActive(eventTitle, currentDate) ==
    LET returned(found) == [op |-> "isEventActive", eventTitle |-> eventTitle,
                            currentDate |-> currentDate, result |-> found]
    IN
    /\ IF eventsConfig = Null
       THEN /\ call' = returned(FALSE)
            /\ UNCHANGED <<cachedActiveEvents, lastUpdateTime>>
            /\ heap' = Collect(heap, cachedActiveEvents', call')
       ELSE IF CacheHit(currentDate, FALSE)
       THEN /\ call' = returned(some(heap[cachedActiveEvents[1]].items, eventTitle))
            /\ UNCHANGED <<cachedActiveEvents, lastUpdateTime>>
            /\ heap' = Collect(heap, cachedActiveEvents', call')
       ELSE /\ cachedActiveEvents' = <<NewArray>>
            /\ lastUpdateTime' = <<currentDate>>
            /\ call' = returned(some(ComputeActiveEvents(eventsConfig, currentDate),
                                     eventTitle))
            /\ heap' = Collect(heap @@ (NewArray :>
                                   [items |-> ComputeActiveEvents(eventsConfig, currentDate),
                                    computedFor |-> currentDate]),
                               cachedActiveEvents', call')
    /\ UNCHANGED eventsConfig

----------------------------------------------------------------------------
(* loadEvents, from a configuration object *)

InvalidRepeating(event) ==
    \/ ~Has(event, "title") \/ event.title = ""
    \/ ~Has(event, "modifier") \/ event.modifier = ""
    \/ ~Has(event, "baseDate") \/ event.baseDate = ""
    \/ ~Has(event, "durationDays")

InvalidOneTime(event) ==
    \/ ~Has(event, "title") \/ event.title = ""
    \/ ~Has(event, "start")
    \/ ~Has(event, "end")

\* validateConfig throws
validateConfigThrows(config) ==
    \/ config = Null
    \/ ~Has(config, "repeating_events") /\ ~Has(config, "one_time_events")
    \/ /\ Has(config, "repeating_events")
       /\ \E i \in 1..Len(config.repeating_events) : InvalidRepeating(config.repeating_events[i])
    \/ /\ Has(config, "one_time_events")
       /\ \E i \in 1..Len(config.one_time_events) : InvalidOneTime(config.one_time_events[i])

\* The configuration is stored before it is validated
LoadEvents(source) ==
    /\ eventsConfig' = source
    /\ call' = [op |-> "loadEvents", source |-> source,
                result |-> IF validateConfigThrows(source) THEN "rejected" ELSE "resolved"]
    /\ heap' = Collect(heap, cachedActiveEvents, call')
    /\ UNCHANGED <<cachedActiveEvents, lastUpdateTime>>

\* The ignoreDate copy of the manager: its validateConfig asks for
\* repeating_events or non_repeating_events and checks the title only
IgnoreDateValidateConfigThrows(config) ==
    \/ config = Null
    \/ ~Has(config, "repeating_events") /\ ~Has(config, "non_repeating_events")
    \/ /\ Has(config, "repeating_events")
       /\ \E i \in 1..Len(config.repeating_events) :
              ~Has(config.repeating_events[i], "title") \/ config.repeating_events[i].title = ""
    \/ /\ Has(config, "non_repeating_events")
       /\ \E i \in 1..Len(config.non_repeating_events) :
              \/ ~Has(config.non_repeating_events[i], "title")
              \/ config.non_repeating_events[i].title = ""

IgnoreDateLoadEvents(source) ==
    /\ eventsConfig' = source
    /\ call' = [op |-> "loadEvents", source |-> source,
                result |-> IF IgnoreDateValidateConfigThrows(source)
                           THEN "rejected" ELSE "resolved"]
    /\ heap' = Collect(heap, cachedActiveEvents, call')
    /\ UNCHANGED <<cachedActiveEvents, lastUpdateTime>>

\* A direct use of calculateCountdown
CalculateCountdown(endDate, currentDate) ==
    /\ call' = [op |-> "calculateCountdown", endDate |-> endDate,
                currentDate |-> currentDate,
                result |-> calculateCountdown(endDate, currentDate)]
    /\ heap' = Collect(heap, cachedActiveEvents, call')
    /\ UNCHANGED <<eventsConfig, cachedActiveEvents, lastUpdateTime>>

----------------------------------------------------------------------------
(* The ignoreDate copy of the manager: getActiveEvents and getUpcomingEvents.
   Its window computation, countdown and cache check are those of the first
   copy.  The definitions of the model carry no icon, image or description *)

\* event.ignoreDate && event.baseDate && event.modifier !== undefined
\*     && event.durationDays !== undefined
UsesRecurrenceRule(event) ==
    /\ Has(event, "ignoreDate") /\ event.ignoreDate = TRUE
    /\ Has(event, "baseDate") /\ event.baseDate # ""
    /\ Has(event, "modifier")
    /\ Has(event, "durationDays")

\* event.start && event.end
UsesExplicitDates(event) == Has(event, "start") /\ Has(event, "end")

\* The dates processEventArray works with; none when the definition is passed
\* over with a warning
NoDates == [threw |-> FALSE, none |-> TRUE]
IgnoreDateExplicitFirst(event, currentDate) ==
    IF UsesExplicitDates(event)
    THEN Window(event.start, event.end) @@ [none |-> FALSE]
    ELSE IF UsesRecurrenceRule(event)
    THEN calculateRepeatingEventDates(event, currentDate) @@ [none |-> FALSE]
    ELSE NoDates
IgnoreDateDates(event, currentDate) ==
    IF UsesRecurrenceRule(event)
    THEN calculateRepeatingEventDates(event, currentDate) @@ [none |-> FALSE]
    ELSE IF UsesExplicitDates(event)
    THEN Window(event.start, event.end) @@ [none |-> FALSE]
    ELSE NoDates

\* event.type || (event.modifier ? 'repeating' : 'one-time')
IgnoreDateType(event) ==
    IF Has(event, "type") /\ event.type # "" THEN event.type
    ELSE IF Has(event, "modifier") /\ event.modifier # "" THEN "repeating"
    ELSE "one-time"

\* modifier: event.modifier, a property the entry lacks when the definition lacks it
WithModifier(entry, event) ==
    IF Has(event, "modifier") THEN entry @@ [modifier |-> event.modifier] ELSE entry

IgnoreDateActiveEntry(event, currentDate) ==
    LET w == IgnoreDateDates(event, currentDate)
        countdown == calculateCountdown(w.end, currentDate)
    IN  IF Inactive(event) \/ w.none \/ w.threw \/ ~Contains(w, currentDate)
        THEN <<>>
        ELSE << WithModifier(
                  [title |-> event.title, image |-> Null, description |-> "",
                   type |-> IgnoreDateType(event), start |-> w.start, end |-> w.end,
                   countdown |-> countdown, countdownText |-> formatCountdown(countdown),
                   ignoreDate |-> (Has(event, "ignoreDate") /\ event.ignoreDate = TRUE)],
                  event) >>

RECURSIVE IgnoreDateActiveEntries(_, _)
IgnoreDateActiveEntries(eventArray, currentDate) ==
    IF eventArray = <<>> THEN <<>>
    ELSE IgnoreDateActiveEntry(Head(eventArray), currentDate)
         \o IgnoreDateActiveEntries(Tail(eventArray), currentDate)

IgnoreDateComputeActiveEvents(config, currentDate) ==
    SortByTotalMs(
        (IF Has(config, "repeating_events")
         THEN IgnoreDateActiveEntries(config.repeating_events, currentDate) ELSE <<>>)
        \o
        (IF Has(config, "non_repeating_events")
         THEN IgnoreDateActiveEntries(config.non_repeating_events, currentDate) ELSE <<>>))

IgnoreDateGetActiveEvents(currentDate, forceRefresh) ==
    LET returned(array) == [op |-> "getActiveEvents", currentDate |-> currentDate,
                            forceRefresh |-> forceRefresh, result |-> array]
    IN
    /\ IF eventsConfig = Null
       THEN /\ call' = returned(NewArray)
            /\ UNCHANGED <<cachedActiveEvents, lastUpdateTime>>
            /\ heap' = Collect(heap @@ (NewArray :> [items |-> <<>>, computedFor |-> currentDate]),
                               cachedActiveEvents', call')
       ELSE IF CacheHit(currentDate, forceRefresh)
       THEN /\ call' = returned(cachedActiveEvents[1])
            /\ UNCHANGED <<cachedActiveEvents, lastUpdateTime>>
            /\ heap' = Collect(heap, cachedActiveEvents', call')
       ELSE /\ cachedActiveEvents' = <<NewArray>>
            /\ lastUpdateTime' = <<currentDate>>
            /\ call' = returned(NewArray)
            /\ heap' = Collect(heap @@ (NewArray :>
                           [items |-> IgnoreDateComputeActiveEvents(eventsConfig, currentDate),
                            computedFor |-> currentDate]),
                               cachedActiveEvents', call')
    /\ UNCHANGED eventsConfig

\* start < endDate && end > currentDate
IgnoreDateUpcomingEntry(event, currentDate, endDate) ==
    LET w == IgnoreDateDates(event, currentDate)
    IN  IF Inactive(event) \/ w.none \/ w.threw
           \/ ~(w.start < endDate /\ w.end > currentDate)
        THEN <<>>
        ELSE << WithModifier(
                  [title |-> event.title, image |-> Null, description |-> "",
                   type |-> IgnoreDateType(event), start |-> w.start, end |-> w.end,
                   isActive |-> (currentDate >= w.start /\ currentDate < w.end)],
                  event) >>

RECURSIVE IgnoreDateUpcomingEntries(_, _, _)
IgnoreDateUpcomingEntries(eventArray, currentDate, endDate) ==
    IF eventArray = <<>> THEN <<>>
    ELSE IgnoreDateUpcomingEntry(Head(eventArray), currentDate, endDate)
         \o IgnoreDateUpcomingEntries(Tail(eventArray), currentDate, endDate)

IgnoreDateUpcomingEvents(config, currentDate, daysAhead, timeZone) ==
    LET endDate == setDate(currentDate, timeZone, daysAhead)
    IN  IF config = Null THEN <<>>
        ELSE SortByStart(
                 (IF Has(config, "repeating_events")
                  THEN IgnoreDateUpcomingEntries(config.repeating_events, currentDate, endDate)
                  ELSE <<>>)
                 \o (IF Has(config, "non_repeating_events")
                     THEN IgnoreDateUpcomingEntries(config.non_repeating_events,
                                                    currentDate, endDate)
                     ELSE <<>>))

IgnoreDateGetUpcomingEvents(currentDate, daysAhead, timeZone) ==
    /\ call' = [op |-> "getUpcomingEvents", currentDate |-> currentDate,
                daysAhead |-> daysAhead, timeZone |-> timeZone,
                result |-> IgnoreDateUpcomingEvents(eventsConfig, currentDate, daysAhead,
                                                    timeZone)]
    /\ heap' = Collect(heap, cachedActiveEvents, call')
    /\ UNCHANGED <<eventsConfig, cachedActiveEvents, lastUpdateTime>>

\* getCalendarForMonth of the ignoreDate copy: processList

\* event.ignoreDate && (event.baseDate && (event.modifier || event.durationDays !== undefined))
CalendarUsesRecurrenceRule(event) ==
    /\ Has(event, "ignoreDate") /\ event.ignoreDate = TRUE
    /\ Has(event, "baseDate") /\ event.baseDate # ""
    /\ \/ Has(event, "modifier") /\ event.modifier # ""
       \/ Has(event, "durationDays")

\* The fallback: a definition with a baseDate and without explicit dates
CalendarFallsBack(event) ==
    /\ ~CalendarUsesRecurrenceRule(event)
    /\ ~UsesExplicitDates(event)
    /\ Has(event, "baseDate") /\ event.baseDate # ""

\* calculateRepeatingEventDates on a definition that may lack a modifier
IgnoreDateCalculate(event, referenceDate) ==
    IF Has(event, "modifier") THEN calculateRepeatingEventDates(event, referenceDate)
    ELSE Throw

\* The dates the callback starts from, computed at monthStart
IgnoreDateCalendarDates(event, monthStart) ==
    IF CalendarUsesRecurrenceRule(event)
    THEN IgnoreDateCalculate(event, monthStart) @@ [none |-> FALSE]
    ELSE IF UsesExplicitDates(event)
    THEN Window(event.start, event.end) @@ [none |-> FALSE]
    ELSE IF CalendarFallsBack(event)
    THEN IgnoreDateCalculate(event, monthStart) @@ [none |-> FALSE]
    ELSE NoDates

\* event.modifier === 'weekly' && event.ignoreDate
CalendarEnumeratesWeekly(event) ==
    /\ Has(event, "modifier") /\ event.modifier = "weekly"
    /\ Has(event, "ignoreDate") /\ event.ignoreDate = TRUE

\* event.type || 'repeating'
IgnoreDateMarkerType(event) ==
    IF Has(event, "type") /\ event.type # "" THEN event.type ELSE "repeating"

IgnoreDateCalendarEntries(event, monthStart, monthEnd) ==
    LET w == IgnoreDateCalendarDates(event, monthStart)
    IN  IF Inactive(event) \/ w.none \/ w.threw THEN <<>>
        ELSE IF CalendarEnumeratesWeekly(event)
        THEN WeeklySearch(event, monthStart, monthStart, monthEnd)
        ELSE MarkersWithin(event, IgnoreDateMarkerType(event), w.start, w.end,
                           monthStart, monthEnd)

RECURSIVE processList(_, _, _)
processList(list, monthStart, monthEnd) ==
    IF list = <<>> THEN <<>>
    ELSE IgnoreDateCalendarEntries(Head(list), monthStart, monthEnd)
         \o processList(Tail(list), monthStart, monthEnd)

IgnoreDateCalendarForMonth(config, year, month) ==
    LET monthStart == DateUTC(year, month, 1, 0, 0, 0, 0)
        monthEnd == DateUTC(year, month + 1, 0, 23, 59, 59, 0)
    IN  IF config = Null THEN <<>>
        ELSE (IF Has(config, "repeating_events")
              THEN processList(config.repeating_events, monthStart, monthEnd) ELSE <<>>)
             \o (IF Has(config, "non_repeating_events")
                 THEN processList(config.non_repeating_events, monthStart, monthEnd)
                 ELSE <<>>)

IgnoreDateGetCalendarForMonth(year, month) ==
    /\ call' = [op |-> "getCalendarForMonth", year |-> year, month |-> month,
                result |-> IgnoreDateCalendarForMonth(eventsConfig, year, month)]
    /\ heap' = Collect(heap, cachedActiveEvents, call')
    /\ UNCHANGED <<eventsConfig, cachedActiveEvents, lastUpdateTime>>

----------------------------------------------------------------------------
(* Inputs *)

\* The first reference day, 2025-12-20, and the reference instants
RefDay0 == MakeDay(2025, 11, 20)
RefDays == RefDay0 .. (RefDay0 + NumRefDays - 1)

TimesOfDay ==
    { 0, MakeTime(7, 0, 0, 0), MakeTime(8, 0, 0, 0) - 1, MakeTime(8, 0, 0, 0),
      MakeTime(9, 0, 0, 0), MakeTime(12, 0, 0, 0), TicksPerDay - 1 }

Refs == { MakeDate(d, tod) : d \in RefDays, tod \in TimesOfDay }

Weekly(day, n) ==
    [title |-> "Raid Weekend", modifier |-> "weekly", baseDate |-> day, durationDays |-> n]
Monthly(d, n) ==
    [title |-> "Gold Pass", modifier |-> "monthly", baseDate |-> DayStrings[d],
     durationDays |-> n]
Fixed(s, e) == [title |-> "Special", start |-> s, end |-> e]

WeeklyDefs == { Weekly(daysOfWeek[i], n) : i \in 1..7, n \in 1..MaxWeeklyDuration }
MonthlyDurations == {1, 3, 10, 28, 31}
MonthlyDefs == { Monthly(d, n) : d \in 1..31, n \in MonthlyDurations }
MalformedDefs ==
    { [title |-> "Daily", modifier |-> "daily", baseDate |-> "01", durationDays |-> 1],
      Weekly("Funday", 3) }
FixedDefs ==
    { Fixed(DateUTC(2026, 0, 10, 8, 0, 0, 0), DateUTC(2026, 0, 12, 8, 0, 0, 0)),
      Fixed(DateUTC(2026, 1, 27, 12, 0, 0, 0), DateUTC(2026, 2, 2, 0, 0, 0, 0)),
      Fixed(DateUTC(2025, 11, 31, 9, 0, 0, 0), DateUTC(2026, 0, 1, 9, 0, 0, 0)) }

WindowConfigs ==
    { [repeating_events |-> <<e>>] : e \in WeeklyDefs \cup MonthlyDefs \cup MalformedDefs }
    \cup { [one_time_events |-> <<e>>] : e \in FixedDefs }

\* The manager's runs: reference instants around 2026-01-17T12:00:00Z
LiveBase == DateUTC(2026, 0, 17, 12, 0, 0, 0)
LiveRefs ==
    { LiveBase - TicksPerDay, LiveBase - Ms(2000), LiveBase - Ms(1000), LiveBase - Ms(500),
      LiveBase, LiveBase + Ms(500), LiveBase + Ms(1000), LiveBase + Ms(1500),
      LiveBase + 3 * TicksPerDay }
LiveSources ==
    { [repeating_events |-> <<Weekly("Friday", 3)>>,
       one_time_events |-> <<Fixed(LiveBase - TicksPerHour, LiveBase + Ms(1000))>>],
      [repeating_events |-> <<Monthly(1, 31), Weekly("Saturday", 2)>>],
      [repeating_events |-> <<[title |-> "", modifier |-> "weekly", baseDate |-> "Friday",
                               durationDays |-> 3]>>] }

\* The months asked of the calendar, as <<year, month>> with month 0 = January
CalendarMonths == { <<2025, 11>>, <<2026, 0>>, <<2026, 1>>, <<2026, 2>>, <<2026, 3>> }

----------------------------------------------------------------------------
(* src/tracker/cache-manager.js: the clan export kept in localStorage *)

\* Unix seconds are written relative to second 2,000,000,000 (2033-05-18T03:33:20Z),
\* so that Unix(0) and the year 2100 both fit the model checker's integers
Unix(seconds) == seconds - 2000000000

\* JavaScript values: numbers, strings (the JSON text of a value, the decimal
\* digits of a number, or other text), objects (records with type "object")
Num(n) == [type |-> "number", value |-> n]
NaN == [type |-> "number", nan |-> TRUE]
Text(chars, of) == [type |-> "string", chars |-> chars, of |-> of]
isNaN(v) == Has(v, "nan")

JSONstringify(value) == Text("json", value)

\* JSON.parse: the value of a JSON text or of decimal digits, a SyntaxError otherwise
JSONparse(string) ==
    IF string.chars = "json" THEN [threw |-> FALSE, value |-> string.of]
    ELSE IF string.chars = "decimal" THEN [threw |-> FALSE, value |-> Num(string.of)]
    ELSE [threw |-> TRUE]

\* String(v) of a number or a string
String(v) == IF v.type = "number" THEN Text("decimal", v.value) ELSE v

\* Number(v) of a number or a string
Number(v) ==
    IF v.type = "number" THEN v
    ELSE IF v.chars = "decimal" THEN Num(v.of)
    ELSE NaN

\* obj.field, undefined (Null) when the object has no such property
Get(obj, field) == IF Has(obj, field) THEN obj[field] ELSE Null

CACHE_KEYS ==
    [CLAN_DATA |-> "userCollectionData",
     TIMESTAMP |-> "clanDataTimestamp",
     METADATA  |-> "clanDataMetadata"]

EXPIRY_MS == 86400000

\* Storage.getItem / setItem / removeItem
getItem(storage, key) == IF key \in DOMAIN storage THEN storage[key] ELSE Null
setItem(storage, key, value) ==
    [k \in DOMAIN storage \cup {key} |-> IF k = key THEN value ELSE storage[k]]
removeItem(storage, key) == [k \in DOMAIN storage \ {key} |-> storage[k]]

validateTimestamp(timestamp) ==
    IF timestamp = Null THEN [valid |-> FALSE, error |-> "missing"]
    ELSE LET numericTimestamp == Number(timestamp)
             minTimestamp == Unix(1577836800)
             maxTimestamp == Unix(2051222400) + 2051222400   \* 4102444800
         IN  IF isNaN(numericTimestamp) \/ numericTimestamp.value <= Unix(0)
             THEN [valid |-> FALSE, error |-> "not a valid number"]
             ELSE IF \/ numericTimestamp.value < minTimestamp
                     \/ numericTimestamp.value > maxTimestamp
             THEN [valid |-> FALSE, error |-> "outside reasonable range"]
             ELSE [valid |-> TRUE]

\* a span of s * 1000 + ms milliseconds, 0 <= ms < 1000, is longer than limitMs
LongerThan(span, limitMs) ==
    \/ span.s > limitMs \div 1000
    \/ span.s = limitMs \div 1000 /\ span.ms > limitMs % 1000

\* the data are two days old before they expire
isDataExpiredAfterTwoDays(timestamp, currentTimeMs) ==
    LET ageMs == [s |-> currentTimeMs.s - timestamp.value, ms |-> currentTimeMs.ms]
    IN  [expired  |-> LongerThan(ageMs, 2 * EXPIRY_MS),
         ageMs    |-> ageMs,
         ageHours |-> ageMs.s \div 3600]

\* isDataExpired(timestamp), currentTimeMs being Date.now()
isDataExpired(timestamp, currentTimeMs) ==
    LET ageMs == [s |-> currentTimeMs.s - timestamp.value, ms |-> currentTimeMs.ms]
    IN  [expired  |-> LongerThan(ageMs, EXPIRY_MS),
         ageMs    |-> ageMs,
         ageHours |-> ageMs.s \div 3600]

\* new Date(timestamp * 1000).toISOString(): the instant, as text
toISOString(timestamp) == Text("iso", Number(timestamp).value)

\* what clearClanData leaves of the storage
Cleared(storage) ==
    removeItem(removeItem(removeItem(storage,
        CACHE_KEYS.CLAN_DATA), CACHE_KEYS.TIMESTAMP), CACHE_KEYS.METADATA)

\* saveClanData(jsonData): the result and the storage it leaves;
\* available is what isLocalStorageAvailable() finds
saveClanData(jsonData, storage, currentTimeMs, available) ==
    IF ~available THEN [result |-> [success |-> FALSE, message |-> "not available"],
                        storage |-> storage]
    ELSE
    LET parsed == IF jsonData.type = "string" THEN JSONparse(jsonData)
                  ELSE [threw |-> FALSE, value |-> jsonData]
    IN  IF parsed.threw
        THEN [result |-> [success |-> FALSE, message |-> "Invalid JSON format"],
              storage |-> storage]
        ELSE IF parsed.value = Null \/ parsed.value.type # "object"
        \* null.timestamp throws; a number or a string has no timestamp
        THEN [result |-> [success |-> FALSE,
                          message |-> IF parsed.value = Null THEN "Failed to save data"
                                      ELSE "Invalid timestamp"],
              storage |-> storage]
        ELSE
        LET parsedData == parsed.value
            timestamp == Get(parsedData, "timestamp")
        IN  IF ~validateTimestamp(timestamp).valid
            THEN [result |-> [success |-> FALSE, message |-> "Invalid timestamp"],
                  storage |-> storage]
            ELSE
            LET dataToStore == IF jsonData.type = "string" THEN jsonData
                               ELSE JSONstringify(parsedData)
                metadata == [type |-> "object",
                             savedAt |-> currentTimeMs,
                             exportTimestamp |-> timestamp,
                             exportDate |-> toISOString(timestamp)]
            IN  [result |-> [success |-> TRUE, message |-> "Data cached successfully",
                             timestamp |-> Number(timestamp)],
                 storage |->
                     setItem(setItem(setItem(storage,
                         CACHE_KEYS.CLAN_DATA, dataToStore),
                         CACHE_KEYS.TIMESTAMP, String(timestamp)),
                         CACHE_KEYS.METADATA, JSONstringify(metadata))]

\* loadClanData(): the result and the storage it leaves
loadClanData(storage, currentTimeMs, available) ==
    IF ~available THEN [result |-> [status |-> "error", message |-> "not available"],
                        storage |-> storage]
    ELSE
    LET storedData == getItem(storage, CACHE_KEYS.CLAN_DATA)
        storedTimestamp == getItem(storage, CACHE_KEYS.TIMESTAMP)
    IN  IF storedData = Null
        THEN [result |-> [status |-> "not_found", message |-> "No cached data found"],
              storage |-> storage]
        ELSE
        LET parsed == JSONparse(storedData)
        IN  IF parsed.threw
            THEN [result |-> [status |-> "error", message |-> "Cached data is corrupted"],
                  storage |-> Cleared(storage)]
            ELSE IF storedTimestamp = Null /\ parsed.value = Null
            \* null.timestamp throws
            THEN [result |-> [status |-> "error", message |-> "Failed to load cached data"],
                  storage |-> storage]
            ELSE
            LET parsedData == parsed.value
                timestamp == IF storedTimestamp # Null THEN Number(storedTimestamp)
                             ELSE IF parsedData.type = "object"
                                  THEN Get(parsedData, "timestamp")
                                  ELSE Null
            IN  IF ~validateTimestamp(timestamp).valid
                THEN [result |-> [status |-> "error", message |-> "Invalid timestamp"],
                      storage |-> Cleared(storage)]
                ELSE
                LET expiryCheck == isDataExpired(Number(timestamp), currentTimeMs)
                IN  IF expiryCheck.expired
                    THEN [result |-> [status |-> "expired",
                                      timestamp |-> Number(timestamp),
                                      ageHours |-> expiryCheck.ageHours],
                          storage |-> storage]
                    ELSE [result |-> [status |-> "valid",
                                      data |-> parsedData,
                                      timestamp |-> Number(timestamp),
                                      ageHours |-> expiryCheck.ageHours],
                          storage |-> storage]

\* clearClanData(): the result and the storage it leaves
clearClanData(storage, available) ==
    IF ~available THEN [result |-> [success |-> FALSE, message |-> "not available"],
                        storage |-> storage]
    ELSE [result |-> [success |-> TRUE, message |-> "Cache cleared successfully"],
          storage |-> Cleared(storage)]

\* The calls, as the page makes them.  Each records what it was given and found:
\* the storage before it (found) and the clock it read (at).
SaveClanData(jsonData, available) ==
    LET done == saveClanData(jsonData, localStorage, now, available)
    IN  /\ localStorage' = done.storage
        /\ call' = [op |-> "saveClanData", jsonData |-> jsonData, available |-> available,
                    found |-> localStorage, at |-> now, result |-> done.result]
        /\ UNCHANGED now

LoadClanData(available) ==
    LET done == loadClanData(localStorage, now, available)
    IN  /\ localStorage' = done.storage
        /\ call' = [op |-> "loadClanData", available |-> available,
                    found |-> localStorage, at |-> now, result |-> done.result]
        /\ UNCHANGED now

ClearClanData(available) ==
    LET done == clearClanData(localStorage, available)
    IN  /\ localStorage' = done.storage
        /\ call' = [op |-> "clearClanData", available |-> available,
                    found |-> localStorage, at |-> now, result |-> done.result]
        /\ UNCHANGED now

\* a page that never uses the cache manager
CacheManagerUnused ==
    /\ localStorage = <<>>
    /\ now = [s |-> Unix(1767225600), ms |-> 0]
    /\ imageCache = <<>>
    /\ fetchEvents = <<>>

----------------------------------------------------------------------------
(* src/tracker/cache-manager.js: the service worker that caches images *)

\* MAX_CACHE_ITEMS is 200 in the source; the model keeps the limit small, so
\* that the fetch events of the model can fill the cache beyond it
MAX_CACHE_ITEMS == 5
NumFetchEvents == 3      \* fetch events the worker is handed

IMAGE_EXTENSIONS == {".png", ".jpg", ".jpeg", ".webp", ".avif", ".svg"}

\* String.prototype.toLowerCase, on the extensions of the model
toLowerCase(extension) == IF extension = ".PNG" THEN ".png" ELSE extension

\* A URL is [name, extension], the end of its pathname
isImageRequest(url) == toLowerCase(url.extension) \in IMAGE_EXTENSIONS

\* Cache.match, Cache.put, Cache.delete and Cache.keys; a cache is the sequence of
\* the URLs it holds a response for, in the order they were put
match(cache, url) == \E i \in DOMAIN cache : cache[i] = url
delete(cache, url) == SelectSeq(cache, LAMBDA key : key # url)
put(cache, url) == Append(delete(cache, url), url)
keys(cache) == cache

\* Math.ceil(n * 0.2)
ceilFifth(n) == (n + 4) \div 5

\* Array.prototype.slice(0, n)
slice(array, n) == SubSeq(array, 1, IF n < Len(array) THEN n ELSE Len(array))

\* cleanupCache, once cache.keys() has answered: the requests it goes on to delete
keysToDelete(cacheKeys) ==
    IF Len(cacheKeys) <= MAX_CACHE_ITEMS THEN <<>>
    ELSE LET itemsToRemove == ceilFifth(Len(cacheKeys))
         IN  slice(cacheKeys, itemsToRemove)

Range(seq) == { seq[i] : i \in DOMAIN seq }

Handler(e) == fetchEvents[e]
Becomes(e, fields) ==
    fetchEvents' = [fetchEvents EXCEPT ![e] = fields @@ fetchEvents[e]]

page == <<eventsConfig, cachedActiveEvents, lastUpdateTime, heap, call, pc, localStorage, now>>

\* the 'fetch' listener up to event.respondWith: only GET requests for images are handled
FetchEvent(e, request) ==
    /\ Handler(e).at = "not dispatched"
    /\ IF request.method # "GET" \/ ~isImageRequest(request.url)
       THEN Becomes(e, [at |-> "done", request |-> request, response |-> "passed through"])
       ELSE Becomes(e, [at |-> "cache.match", request |-> request])
    /\ UNCHANGED <<page, imageCache>>

\* caches.open and cache.match have answered: a hit is served at once and
\* updateCache fetches in the background, a miss awaits the network
Match(e) ==
    /\ Handler(e).at = "cache.match"
    /\ IF match(imageCache, Handler(e).request.url)
       THEN Becomes(e, [at |-> "fetch", response |-> "cached"])
       ELSE Becomes(e, [at |-> "fetch", response |-> "awaited"])
    /\ UNCHANGED <<page, imageCache>>

\* fetch(request) has answered with a status, or has failed (status 0):
\* only a 200 is put in the cache
Fetched(e, status) ==
    /\ Handler(e).at = "fetch"
    /\ LET response == IF Handler(e).response = "cached" THEN "cached"
                       ELSE IF status = 0 THEN "503 Image fetch failed"
                       ELSE "network"
       IN  IF status = 200
           THEN Becomes(e, [at |-> "cache.put", response |-> response])
           ELSE Becomes(e, [at |-> "done", response |-> response])
    /\ UNCHANGED <<page, imageCache>>

\* cache.put has stored the response; cleanupCache is called and asks for cache.keys()
Put(e) ==
    /\ Handler(e).at = "cache.put"
    /\ imageCache' = put(imageCache, Handler(e).request.url)
    /\ Becomes(e, [at |-> "cache.keys"])
    /\ UNCHANGED page

\* cache.keys() has answered: cleanupCache returns, or asks for the deletion of
\* the oldest fifth of the keys it was given
Keys(e) ==
    /\ Handler(e).at = "cache.keys"
    /\ LET toDelete == keysToDelete(keys(imageCache))
       IN  IF toDelete = <<>>
           THEN Becomes(e, [at |-> "done"])
           ELSE Becomes(e, [at |-> "cache.delete", deleting |-> Range(toDelete)])
    /\ UNCHANGED <<page, imageCache>>

\* one cache.delete of cleanupCache's Promise.all has been carried out
Delete(e, key) ==
    /\ Handler(e).at = "cache.delete"
    /\ key \in Handler(e).deleting
    /\ imageCache' = delete(imageCache, key)
    /\ IF Handler(e).deleting = {key}
       THEN Becomes(e, [at |-> "done", deleting |-> {}])
       ELSE Becomes(e, [at |-> "cache.delete", deleting |-> Handler(e).deleting \ {key}])
    /\ UNCHANGED page

----------------------------------------------------------------------------
(* The manager: loadEvents and getActiveEvents in any order *)

NoCall == [op |-> "none"]

Init ==
    /\ eventsConfig = Null
    /\ cachedActiveEvents = Null
    /\ lastUpdateTime = Null
    /\ heap = <<>>
    /\ call = NoCall
    /\ pc = "live"
    /\ CacheManagerUnused

Load ==
    /\ pc = "live"
    /\ \E source \in LiveSources : LoadEvents(source)
    /\ UNCHANGED pc
    /\ UNCHANGED cacheManager

Query ==
    /\ pc = "live"
    /\ \E currentDate \in LiveRefs, forceRefresh \in BOOLEAN :
           GetActiveEvents(currentDate, forceRefresh)
    /\ UNCHANGED pc
    /\ UNCHANGED cacheManager

Next == Load \/ Query

Spec == Init /\ [][Next]_vars

----------------------------------------------------------------------------
(* One query on a manager holding one definition, for every definition and instant *)

WindowInit ==
    /\ eventsConfig \in WindowConfigs
    /\ cachedActiveEvents = Null
    /\ lastUpdateTime = Null
    /\ heap = <<>>
    /\ call = NoCall
    /\ pc = "ready"
    /\ CacheManagerUnused

WCalculate ==
    /\ pc = "ready"
    /\ Has(eventsConfig, "repeating_events")
    /\ \E referenceDate \in Refs :
           CalculateRepeatingEventDates(eventsConfig.repeating_events[1], referenceDate)
    /\ pc' = "done"
    /\ UNCHANGED cacheManager

WGetActive ==
    /\ pc = "ready"
    /\ \E currentDate \in Refs : GetActiveEvents(currentDate, FALSE)
    /\ pc' = "done"
    /\ UNCHANGED cacheManager

\* The calendar of a month, for December 2025 to April 2026
WCalendar ==
    /\ pc = "ready"
    /\ \E ym \in CalendarMonths : GetCalendarForMonth(ym[1], ym[2])
    /\ pc' = "done"
    /\ UNCHANGED cacheManager

WindowNext == WCalculate \/ WGetActive \/ WCalendar

WindowSpec == WindowInit /\ [][WindowNext]_vars

----------------------------------------------------------------------------
(* The queries of a manager that was handed a configuration of several
   definitions: one loadEvents and, when it resolved, queries in any order *)

QueryBase == DateUTC(2026, 0, 17, 12, 0, 0, 0)

RaidWeekend == Weekly("Friday", 3)
GoldPass == Monthly(16, 3)
SeasonEnd == [title |-> "Season End", modifier |-> "monthly", baseDate |-> "31",
              durationDays |-> 1]
ClanGames == [title |-> "Clan Games", modifier |-> "monthly", baseDate |-> "07",
              durationDays |-> 6]
Retired == [title |-> "Retired", modifier |-> "weekly", baseDate |-> "Saturday",
            durationDays |-> 2, active |-> FALSE]
Daily == [title |-> "Daily", modifier |-> "daily", baseDate |-> "01", durationDays |-> 1]
Funday == [title |-> "Funday", modifier |-> "weekly", baseDate |-> "Funday",
           durationDays |-> 3]
Special == [title |-> "Special", start |-> DateUTC(2026, 0, 10, 8, 0, 0, 0),
            end |-> DateUTC(2026, 0, 19, 8, 0, 0, 0), active |-> TRUE]
Flash == [title |-> "Flash", start |-> QueryBase - TicksPerHour,
          end |-> QueryBase + Ms(1000)]
Closed == [title |-> "Closed", start |-> DateUTC(2026, 0, 1, 0, 0, 0, 0),
           end |-> DateUTC(2026, 3, 1, 0, 0, 0, 0), active |-> FALSE]
Spring == [title |-> "Spring", start |-> DateUTC(2026, 2, 31, 8, 0, 0, 0),
           end |-> DateUTC(2026, 3, 2, 8, 0, 0, 0)]

\* Definitions outside the data model: no duration, an end before the start, a
\* recurrence rule together with explicit bounds, no title
ZeroDays == [title |-> "Zero", modifier |-> "weekly", baseDate |-> "Saturday",
             durationDays |-> 0]
Backwards == [title |-> "Backwards", start |-> DateUTC(2026, 0, 20, 8, 0, 0, 0),
              end |-> DateUTC(2026, 0, 18, 8, 0, 0, 0)]
Hybrid == [title |-> "Hybrid", modifier |-> "weekly", baseDate |-> "Friday",
           durationDays |-> 3, ignoreDate |-> TRUE,
           start |-> DateUTC(2026, 0, 10, 8, 0, 0, 0),
           end |-> DateUTC(2026, 0, 12, 8, 0, 0, 0)]
Untitled == [title |-> "", modifier |-> "weekly", baseDate |-> "Friday",
             durationDays |-> 3]

QuerySources ==
    { [repeating_events |-> <<RaidWeekend, GoldPass, Retired, Daily, SeasonEnd>>,
       one_time_events |-> <<Special, Flash, Closed>>],
      [repeating_events |-> <<Funday, GoldPass, ClanGames, RaidWeekend>>,
       one_time_events |-> <<Spring>>],
      [one_time_events |-> <<Flash, Special>>],
      [repeating_events |-> <<ZeroDays, RaidWeekend>>],
      [one_time_events |-> <<Backwards>>],
      [repeating_events |-> <<Hybrid>>],
      [repeating_events |-> <<RaidWeekend, Untitled>>] }

\* The sources handed to the ignoreDate copy
IgnoreDateSources ==
    { [repeating_events |-> <<Hybrid>>],
      [repeating_events |-> <<[RaidWeekend EXCEPT !.durationDays = 0]>>,
       non_repeating_events |-> <<Backwards>>],
      [non_repeating_events |-> <<[Special EXCEPT !.title = ""]>>],
      [one_time_events |-> <<Special>>] }

QueryRefs ==
    { QueryBase, QueryBase + Ms(500), QueryBase + Ms(1000), QueryBase + 2 * TicksPerDay }
QueryTitles == { "Raid Weekend", "Flash", "Retired" }

UpcomingRefs ==
    { QueryBase, DateUTC(2026, 2, 1, 8, 30, 0, 0), DateUTC(2026, 2, 8, 7, 30, 0, 0) }
DaysAhead == { 7, 30 }
HostTimeZones == { "UTC", "Europe/Berlin", "Australia/Sydney" }

\* Spans from the reference to the end, for calculateCountdown
CountdownSpans ==
    { d * TicksPerDay + h * TicksPerHour + m * TicksPerMinute + s * TicksPerSecond + f :
        d \in {0, 1, 40}, h \in {0, 23}, m \in {0, 59}, s \in {0, 59},
        f \in {0, TicksPerSecond - 1} }
    \cup { -TicksPerDay, -1 }

QueryInit ==
    /\ eventsConfig = Null
    /\ cachedActiveEvents = Null
    /\ lastUpdateTime = Null
    /\ heap = <<>>
    /\ call = NoCall
    /\ pc = "new"
    /\ CacheManagerUnused

QLoad ==
    /\ pc = "new"
    /\ \E source \in QuerySources : LoadEvents(source)
    /\ pc' = IF call'.result = "resolved" THEN "loaded" ELSE "rejected"
    /\ UNCHANGED cacheManager

QLoadIgnoreDate ==
    /\ pc = "new"
    /\ \E source \in IgnoreDateSources : IgnoreDateLoadEvents(source)
    /\ pc' = "loaded by the ignoreDate copy"
    /\ UNCHANGED cacheManager

QCountdown ==
    /\ pc = "new"
    /\ \E span \in CountdownSpans : CalculateCountdown(QueryBase + span, QueryBase)
    /\ pc' = "counted"
    /\ UNCHANGED cacheManager

\* getActiveEvents on a manager that was handed no configuration yet
QActiveUnloaded ==
    /\ pc = "new"
    /\ \E currentDate \in QueryRefs, forceRefresh \in BOOLEAN :
           GetActiveEvents(currentDate, forceRefresh)
    /\ UNCHANGED pc
    /\ UNCHANGED cacheManager

QActive ==
    /\ pc = "loaded"
    /\ \E currentDate \in QueryRefs, forceRefresh \in BOOLEAN :
           GetActiveEvents(currentDate, forceRefresh)
    /\ UNCHANGED pc
    /\ UNCHANGED cacheManager

QIsActive ==
    /\ pc = "loaded"
    /\ \E eventTitle \in QueryTitles, currentDate \in QueryRefs :
           IsEventActive(eventTitle, currentDate)
    /\ UNCHANGED pc
    /\ UNCHANGED cacheManager

QUpcoming ==
    /\ pc = "loaded"
    /\ \E currentDate \in UpcomingRefs, daysAhead \in DaysAhead, timeZone \in HostTimeZones :
           GetUpcomingEvents(currentDate, daysAhead, timeZone)
    /\ UNCHANGED pc
    /\ UNCHANGED cacheManager

QCalendar ==
    /\ pc = "loaded"
    /\ \E ym \in CalendarMonths : GetCalendarForMonth(ym[1], ym[2])
    /\ UNCHANGED pc
    /\ UNCHANGED cacheManager

QueryNext == QLoad \/ QLoadIgnoreDate \/ QCountdown \/ QActiveUnloaded \/ QActive
                \/ QIsActive \/ QUpcoming \/ QCalendar

QuerySpec == QueryInit /\ [][QueryNext]_vars

----------------------------------------------------------------------------
(* The ignoreDate copy: one loadEvents and, when it resolved, queries in any order *)

\* Definitions with a complete recurrence rule (weekly Friday / 3 days) and
\* explicit bounds 2026-01-13T08:00Z to 2026-01-15T08:00Z at once
FlaggedHybrid ==
    [title |-> "Flagged", ignoreDate |-> TRUE, modifier |-> "weekly", baseDate |-> "Friday",
     durationDays |-> 3, start |-> DateUTC(2026, 0, 13, 8, 0, 0, 0),
     end |-> DateUTC(2026, 0, 15, 8, 0, 0, 0)]
UnflaggedHybrid == [FlaggedHybrid EXCEPT !.title = "Unflagged", !.ignoreDate = FALSE]
PlainHybrid ==
    [title |-> "Plain", modifier |-> "monthly", baseDate |-> "16", durationDays |-> 3,
     start |-> DateUTC(2026, 0, 13, 8, 0, 0, 0), end |-> DateUTC(2026, 0, 15, 8, 0, 0, 0)]
\* Recurrence rules alone, with and without the flag, and explicit bounds alone
FlaggedWeekly == [RaidWeekend EXCEPT !.title = "Flagged Raid"] @@ [ignoreDate |-> TRUE]
FlaggedMonthly == [GoldPass EXCEPT !.title = "Flagged Pass"] @@ [ignoreDate |-> TRUE]

IgnoreDateConfigs ==
    { [repeating_events |-> <<FlaggedHybrid, UnflaggedHybrid>>,
       non_repeating_events |-> <<PlainHybrid>>],
      [repeating_events |-> <<FlaggedWeekly, FlaggedMonthly>>,
       non_repeating_events |-> <<Special, Closed>>],
      [repeating_events |-> <<RaidWeekend, GoldPass>>],
      [repeating_events |-> <<UnflaggedHybrid, Funday @@ [ignoreDate |-> TRUE]>>],
      [non_repeating_events |-> <<[Special EXCEPT !.title = ""]>>] }

IgnoreDateRefs ==
    { DateUTC(2026, 0, 14, 12, 0, 0, 0), QueryBase, QueryBase + Ms(500) }

IgnoreDateInit ==
    /\ eventsConfig = Null
    /\ cachedActiveEvents = Null
    /\ lastUpdateTime = Null
    /\ heap = <<>>
    /\ call = NoCall
    /\ pc = "new"
    /\ CacheManagerUnused

ILoad ==
    /\ pc = "new"
    /\ \E source \in IgnoreDateConfigs : IgnoreDateLoadEvents(source)
    /\ pc' = IF call'.result = "resolved" THEN "loaded by the ignoreDate copy" ELSE "rejected"
    /\ UNCHANGED cacheManager

IActive ==
    /\ pc = "loaded by the ignoreDate copy"
    /\ \E currentDate \in IgnoreDateRefs, forceRefresh \in BOOLEAN :
           IgnoreDateGetActiveEvents(currentDate, forceRefresh)
    /\ UNCHANGED pc
    /\ UNCHANGED cacheManager

IUpcoming ==
    /\ pc = "loaded by the ignoreDate copy"
    /\ \E currentDate \in IgnoreDateRefs, daysAhead \in DaysAhead, timeZone \in HostTimeZones :
           IgnoreDateGetUpcomingEvents(currentDate, daysAhead, timeZone)
    /\ UNCHANGED pc
    /\ UNCHANGED cacheManager

ICalendar ==
    /\ pc = "loaded by the ignoreDate copy"
    /\ \E ym \in CalendarMonths : IgnoreDateGetCalendarForMonth(ym[1], ym[2])
    /\ UNCHANGED pc
    /\ UNCHANGED cacheManager

IgnoreDateNext == ILoad \/ IActive \/ IUpcoming \/ ICalendar

IgnoreDateSpec == IgnoreDateInit /\ [][IgnoreDateNext]_vars

----------------------------------------------------------------------------
(* The clan export of a page: saveClanData, loadClanData and clearClanData in
   any order, while time passes *)

\* The instant of the first export: 2026-01-01T00:00:00Z
ExportedAt == Unix(1767225600)

\* The second export is made 30 hours after the first
LaterExportedAt == ExportedAt + 30 * 3600

Export(timestamp) == [type |-> "object", tag |-> "#2PP", timestamp |-> timestamp]

\* What the page hands to saveClanData: objects and strings, with timestamps that
\* are numbers, digits, text, missing, or outside 2020..2100
ClanExports ==
    { Export(Num(ExportedAt)),
      JSONstringify(Export(Num(ExportedAt))),
      JSONstringify(Export(Num(LaterExportedAt))),
      JSONstringify(Export(Text("decimal", ExportedAt))),
      [type |-> "object", tag |-> "#2PP"],
      Export(Text("text", "yesterday")),
      Export(Num(Unix(0))),
      Export(Num(Unix(1577836799))),
      JSONstringify(Export(Num(Unix(2051222400) + 2051222401))),
      Text("text", "{not json"),
      JSONstringify(Null) }

\* The instants the page's clock shows, one after the other
ClanClock ==
    { [s |-> ExportedAt + 60, ms |-> 0],
      [s |-> ExportedAt + 86400, ms |-> 0],
      [s |-> ExportedAt + 86400, ms |-> 1],
      [s |-> LaterExportedAt + 86400, ms |-> 0],
      [s |-> LaterExportedAt + 86400, ms |-> 1],
      [s |-> LaterExportedAt + 3 * 86400, ms |-> 500] }

Later(a, b) == a.s > b.s \/ (a.s = b.s /\ a.ms > b.ms)

eventsManager == <<eventsConfig, cachedActiveEvents, lastUpdateTime, heap, pc>>

ClanInit ==
    /\ eventsConfig = Null
    /\ cachedActiveEvents = Null
    /\ lastUpdateTime = Null
    /\ heap = <<>>
    /\ call = NoCall
    /\ pc = "page"
    /\ localStorage = <<>>
    /\ now = [s |-> ExportedAt + 60, ms |-> 0]
    /\ imageCache = <<>>
    /\ fetchEvents = <<>>

CSave ==
    /\ \E jsonData \in ClanExports, available \in BOOLEAN : SaveClanData(jsonData, available)
    /\ UNCHANGED <<eventsManager, imageCache, fetchEvents>>

CLoad ==
    /\ \E available \in BOOLEAN : LoadClanData(available)
    /\ UNCHANGED <<eventsManager, imageCache, fetchEvents>>

CClear ==
    /\ \E available \in BOOLEAN : ClearClanData(available)
    /\ UNCHANGED <<eventsManager, imageCache, fetchEvents>>

\* time passes
CElapse ==
    /\ \E later \in ClanClock : Later(later, now) /\ now' = later
    /\ UNCHANGED <<eventsManager, localStorage, call, imageCache, fetchEvents>>

ClanNext == CSave \/ CLoad \/ CClear \/ CElapse

ClanSpec == ClanInit /\ [][ClanNext]_vars

----------------------------------------------------------------------------
(* The service worker handed a few fetch events, their handlers running in any
   interleaving of their awaits *)

Image(name) == [name |-> name, extension |-> ".png"]

\* The cache the worker starts from: empty, or holding MAX_CACHE_ITEMS images
\* from earlier visits
FilledCache == [i \in 1..MAX_CACHE_ITEMS |-> Image(i)]

\* What the e-th fetch event asks for: an image not fetched before, an image
\* fetched on an earlier visit, a stylesheet, or a POST
FetchRequests(e) ==
    { [method |-> "GET", url |-> Image(MAX_CACHE_ITEMS + e)],
      [method |-> "GET", url |-> Image(e)],
      [method |-> "GET", url |-> [name |-> e, extension |-> ".css"]],
      [method |-> "POST", url |-> [name |-> e, extension |-> ".PNG"]] }

\* What the network answers: 200, 404, or nothing (0)
FetchStatuses == {200, 404, 0}

WorkerInit ==
    /\ eventsConfig = Null
    /\ cachedActiveEvents = Null
    /\ lastUpdateTime = Null
    /\ heap = <<>>
    /\ call = NoCall
    /\ pc = "worker"
    /\ localStorage = <<>>
    /\ now = [s |-> Unix(1767225600), ms |-> 0]
    /\ imageCache \in {<<>>, FilledCache}
    /\ fetchEvents = [e \in 1..NumFetchEvents |-> [at |-> "not dispatched"]]

SDispatch == \E e \in 1..NumFetchEvents : \E request \in FetchRequests(e) : FetchEvent(e, request)
SMatch == \E e \in 1..NumFetchEvents : Match(e)
SFetched == \E e \in 1..NumFetchEvents, status \in FetchStatuses : Fetched(e, status)
SPut == \E e \in 1..NumFetchEvents : Put(e)
SKeys == \E e \in 1..NumFetchEvents : Keys(e)
SDelete ==
    \E e \in 1..NumFetchEvents :
        /\ Handler(e).at = "cache.delete"
        /\ \E key \in Handler(e).deleting : Delete(e, key)

WorkerNext == SDispatch \/ SMatch \/ SFetched \/ SPut \/ SKeys \/ SDelete

WorkerSpec == WorkerInit /\ [][WorkerNext]_vars

----------------------------------------------------------------------------
(* The calendar of the reference period, written out: the months from December
   2025 on, by their first day and their length *)
MonthLengths == <<31, 31, 28, 31, 30, 31, 30>>

RECURSIVE FirstDayOfMonth(_)
FirstDayOfMonth(i) ==
    IF i = 1 THEN RefDay0 - 19 ELSE FirstDayOfMonth(i - 1) + MonthLengths[i - 1]

\* The month (1 = December 2025, 2 = January 2026, ...) a day falls in
MonthOfDay(day) ==
    CHOOSE i \in 1..Len(MonthLengths) :
        FirstDayOfMonth(i) <= day /\ day < FirstDayOfMonth(i) + MonthLengths[i]

Jan1 == FirstDayOfMonth(2)
Feb1 == FirstDayOfMonth(3)
At(day, hours) == MakeDate(day, hours * TicksPerHour)

\* The weekday of a day, 0 = Sunday: 16 January 2026 is a Friday
WeekdayOf(day) == (day - (Jan1 + 15) + 5) % 7

----------------------------------------------------------------------------
(* What the properties speak about *)

\* The single recurring definition of a one-definition configuration
TheEvent == eventsConfig.repeating_events[1]
TheFixed == eventsConfig.one_time_events[1]

AskedActive == call.op = "getActiveEvents"
AskedDates == call.op = "calculateRepeatingEventDates"
AskedWeekly ==
    /\ Has(eventsConfig, "repeating_events")
    /\ TheEvent.modifier = "weekly"
    /\ indexOf(TheEvent.baseDate) # -1
AskedMonthly ==
    /\ Has(eventsConfig, "repeating_events")
    /\ TheEvent.modifier = "monthly"

\* The list a getActiveEvents call returned
Returned == heap[call.result].items
Listed(title) == \E i \in 1..Len(Returned) : Returned[i].title = title
ListedWith(title, s, e) ==
    \E i \in 1..Len(Returned) :
        Returned[i].title = title /\ Returned[i].start = s /\ Returned[i].end = e

\* 08:00 UTC on a day, and a length of n days
EightOn(day) == At(day, 8)
Days(n) == n * TicksPerDay

WeekdayName(day) == daysOfWeek[WeekdayOf(day) + 1]

\* The occurrences of a recurrence rule: they start at 08:00 UTC on each target day
OnTargetDay(event, day) ==
    IF event.modifier = "weekly"
    THEN WeekdayName(day) = event.baseDate
    ELSE DayStrings[DateFromDay(day)] = event.baseDate

\* t lies in an occurrence: one that started k days before t's day, for some k
InOccurrence(event, t) ==
    \E k \in 0..event.durationDays :
        /\ OnTargetDay(event, DayOf(t) - k)
        /\ EightOn(DayOf(t) - k) <= t
        /\ t < EightOn(DayOf(t) - k) + Days(event.durationDays)

\* The start of the earliest occurrence that starts after t (within two months)
NextStart(event, t) ==
    LET ahead == { k \in 0..62 : OnTargetDay(event, DayOf(t) + k) /\ EightOn(DayOf(t) + k) > t }
        k0 == CHOOSE k \in ahead : \A j \in ahead : k <= j
    IN  EightOn(DayOf(t) + k0)

----------------------------------------------------------------------------
(* C1: a weekly definition with start day D and durationDays n, 1 <= n <= 6, is in
   the list getActiveEvents(ref) computes exactly when ref lies in
   [08:00 UTC on a day D, that instant + n days): on the start day itself from
   08:00 UTC, on the following days of the occurrence, and at no other instant. *)
C1_WeeklyActiveExactlyInOccurrence ==
    (AskedActive /\ AskedWeekly /\ TheEvent.durationDays <= 6)
        => (Listed(TheEvent.title) <=> InOccurrence(TheEvent, call.currentDate))

(* C2: a monthly occurrence that starts at 08:00 UTC on day d of a month is
   reported active at every reference in [start, start + durationDays days), also
   when the reference lies in the following month on a day before d. *)
C2_MonthlyActiveThroughOccurrence ==
    (AskedActive /\ AskedMonthly /\ InOccurrence(TheEvent, call.currentDate))
        => Listed(TheEvent.title)

(* C3: for a reference in no occurrence of a recurring definition, the window
   returned is the earliest occurrence that starts after the reference (day of
   month up to 28, so that every month has the day). *)
C3_NearestFutureWindow ==
    (/\ AskedDates
     /\ AskedWeekly \/ (AskedMonthly /\ parseInt(TheEvent.baseDate) <= 28)
     /\ ~InOccurrence(TheEvent, call.referenceDate))
        => /\ call.result.start = NextStart(TheEvent, call.referenceDate)
           /\ call.result.end = call.result.start + Days(TheEvent.durationDays)

(* C4: activity is the half-open interval [window.start, window.end) for every kind
   of definition: with a window the calculator computed for the definition (the
   instant before, or the day before), the event is in the active list when the
   reference is the window's start, and that window is not in it when the
   reference is the window's end (day of month up to 28, so that every month has
   the day). *)
C4_HalfOpenInterval ==
    AskedActive =>
        /\ (AskedWeekly \/ (AskedMonthly /\ parseInt(TheEvent.baseDate) <= 28)) =>
              \A r \in {call.currentDate - 1, call.currentDate - TicksPerDay} :
                  LET w == calculateRepeatingEventDates(TheEvent, r)
                  IN  /\ w.start = call.currentDate => Listed(TheEvent.title)
                      /\ w.end = call.currentDate
                            => ~ListedWith(TheEvent.title, w.start, w.end)
        /\ Has(eventsConfig, "one_time_events") =>
              /\ TheFixed.start = call.currentDate => Listed(TheFixed.title)
              /\ TheFixed.end = call.currentDate => ~Listed(TheFixed.title)


(* C5: over any sequence of getActiveEvents calls, a list returned with
   forceRefresh = false was computed for an instant within 1000 ms of the requested
   one, in either direction: a request more than one second earlier than the
   cached instant is not answered from the cache. *)
C5_CachedListWithinOneSecond ==
    (AskedActive /\ ~call.forceRefresh) =>
        LET computedFor == heap[call.result].computedFor
        IN  /\ call.currentDate - computedFor < Ms(1000)
            /\ computedFor - call.currentDate <= Ms(1000)

(* C6: once a list is cached for r1, getActiveEvents(r2, false) with
   0 <= r2 - r1 < 1000 ms returns the very same array and changes nothing; with
   r2 - r1 >= 1000 ms, or with forceRefresh = true, it builds a new array for r2
   and makes it the cached list, with r2 the cached instant. *)
C6_CachePolicy ==
    [][ (call'.op = "getActiveEvents" /\ eventsConfig # Null) =>
          LET r2 == call'.currentDate
              cached == cachedActiveEvents # Null
              within == cached /\ 0 <= r2 - lastUpdateTime[1]
                               /\ r2 - lastUpdateTime[1] < Ms(1000)
              later == cached /\ r2 - lastUpdateTime[1] >= Ms(1000)
          IN  /\ (within /\ ~call'.forceRefresh) =>
                    /\ call'.result = cachedActiveEvents[1]
                    /\ heap'[call'.result] = heap[call'.result]
                    /\ UNCHANGED <<cachedActiveEvents, lastUpdateTime>>
              /\ (later \/ call'.forceRefresh) =>
                    /\ call'.result \notin DOMAIN heap
                    /\ heap'[call'.result] =
                          [items |-> ComputeActiveEvents(eventsConfig, r2), computedFor |-> r2]
                    /\ cachedActiveEvents' = <<call'.result>>
                    /\ lastUpdateTime' = <<r2>>
      ]_vars

\* A call answered from the cache, for an instant later than the cached one
C6_Witness ==
    /\ AskedActive
    /\ ~call.forceRefresh
    /\ cachedActiveEvents = <<call.result>>
    /\ heap[call.result].computedFor < call.currentDate
    /\ Len(Returned) > 0


----------------------------------------------------------------------------
(* C7, as the specification states it: for a weekly definition with
   durationDays <= 7 and any reference, exactly one of the previous-week window
   and the forward window contains the reference. *)
PreviousWeekWindow(event, t) ==
    LET daysSinceTarget == (getUTCDay(t) - indexOf(event.baseDate) + 7) % 7
    IN  lastWeekWindow(t, IF daysSinceTarget = 0 THEN 7 ELSE daysSinceTarget,
                       event.durationDays)
ForwardWindow(event, t) == nextWindow(t, indexOf(event.baseDate), event.durationDays)

C7_ExactlyOneWindowContains ==
    (AskedDates /\ AskedWeekly /\ TheEvent.durationDays <= 7) =>
        (Contains(PreviousWeekWindow(TheEvent, call.referenceDate), call.referenceDate)
            # Contains(ForwardWindow(TheEvent, call.referenceDate), call.referenceDate))

(* C7, amended: for a weekly definition with durationDays <= 7 and any reference,
   the previous-week window and the forward window do not overlap (the first ends
   no later than the second starts) and at most one of them contains the
   reference; the window returned is the previous-week one when it contains the
   reference and the reference's UTC weekday is not the target weekday, and the
   forward one otherwise. *)
C7_WindowsDoNotOverlap ==
    (AskedDates /\ AskedWeekly /\ TheEvent.durationDays <= 7) =>
        LET t == call.referenceDate
            prev == PreviousWeekWindow(TheEvent, t)
            fwd == ForwardWindow(TheEvent, t)
        IN  /\ prev.end <= fwd.start
            /\ ~(Contains(prev, t) /\ Contains(fwd, t))
            /\ call.result =
                  IF Contains(prev, t) /\ getUTCDay(t) # indexOf(TheEvent.baseDate)
                  THEN prev ELSE fwd

\* A reference inside the previous-week window of a seven-day event
C7_Witness ==
    /\ AskedDates /\ AskedWeekly /\ TheEvent.durationDays = 7
    /\ Contains(PreviousWeekWindow(TheEvent, call.referenceDate), call.referenceDate)
    /\ call.result = PreviousWeekWindow(TheEvent, call.referenceDate)

(* C8, as the specification states it: monthly, dayOfMonth 1, durationDays 31:
   inactive at 2026-01-01T07:00Z; active at 2026-01-01T09:00Z with the window
   [2026-01-01T08:00Z, 2026-02-01T08:00Z); inactive at 2026-02-01T09:00Z. *)
GoldPassAsked == AskedActive /\ AskedMonthly /\ TheEvent = Monthly(1, 31)

C8_GoldPassScenario ==
    GoldPassAsked =>
        /\ call.currentDate = At(Jan1, 7) => ~Listed(TheEvent.title)
        /\ call.currentDate = At(Jan1, 9)
              => ListedWith(TheEvent.title, At(Jan1, 8), At(Feb1, 8))
        /\ call.currentDate = At(Feb1, 9) => ~Listed(TheEvent.title)

(* C8, amended: inactive at 2026-01-01T07:00Z; active at 2026-01-01T09:00Z with
   the window [2026-01-01T08:00Z, 2026-02-01T08:00Z); at 2026-02-01T09:00Z active
   again, with the February window [2026-02-01T08:00Z, 2026-03-04T08:00Z). *)
C8_GoldPassScenarioAmended ==
    GoldPassAsked =>
        /\ call.currentDate = At(Jan1, 7) => ~Listed(TheEvent.title)
        /\ call.currentDate = At(Jan1, 9)
              => ListedWith(TheEvent.title, At(Jan1, 8), At(Feb1, 8))
        /\ call.currentDate = At(Feb1, 9)
              => ListedWith(TheEvent.title, At(Feb1, 8), At(Feb1 + 31, 8))

C8_Witness ==
    GoldPassAsked /\ call.currentDate = At(Feb1, 9) /\ Listed(TheEvent.title)

(* C9: calculateMonthlyEvent follows the three-case rule in UTC: reference day of
   month < dayOfMonth: the window starts on dayOfMonth of the reference's month at
   08:00; else, the reference in [that start, that start + durationDays days): that
   window; else the window starts on dayOfMonth of the next month at 08:00,
   December rolling to January of the next year; end = start + durationDays days.
   Day d of a month is the day d - 1 days after its first day. *)
C9_MonthlyThreeCases ==
    (AskedDates /\ AskedMonthly) =>
        LET t == call.referenceDate
            d == parseInt(TheEvent.baseDate)
            m == MonthOfDay(DayOf(t))
            thisStart == At(FirstDayOfMonth(m) + d - 1, 8)
            nextStart == At(FirstDayOfMonth(m + 1) + d - 1, 8)
            start ==
                IF DayOf(t) - FirstDayOfMonth(m) + 1 < d THEN thisStart
                ELSE IF thisStart <= t /\ t < thisStart + Days(TheEvent.durationDays)
                     THEN thisStart
                     ELSE nextStart
        IN  call.result = Window(start, start + Days(TheEvent.durationDays))

\* A December reference after its occurrence: the window starts in January 2026
C9_Witness ==
    /\ AskedDates /\ AskedMonthly
    /\ MonthOfDay(DayOf(call.referenceDate)) = 1
    /\ parseInt(TheEvent.baseDate) = 25
    /\ call.result.start = At(Jan1 + 24, 8)

(* C10: calculateWeeklyEvent follows the look-back rule: with daysSinceTarget =
   (reference weekday - dayOfWeek + 7) mod 7, if 0 < daysSinceTarget <=
   durationDays and the reference is in [lastStart, lastStart + durationDays days),
   lastStart being 08:00 UTC daysSinceTarget days before the reference's date, that
   window is returned; otherwise the window starts at 08:00 UTC on the next target
   weekday strictly after the reference's date.  Friday / 3 days: Sunday
   2026-01-18 12:00 lies in the window of Friday 16; on Tuesday 20 the window is
   the one of Friday 23. *)
C10_WeeklyLookBack ==
    (AskedDates /\ AskedWeekly) =>
        LET t == call.referenceDate
            n == TheEvent.durationDays
            daysSinceTarget == (WeekdayOf(DayOf(t)) - indexOf(TheEvent.baseDate) + 7) % 7
            lastStart == At(DayOf(t) - daysSinceTarget, 8)
            start ==
                IF /\ 0 < daysSinceTarget /\ daysSinceTarget <= n
                   /\ lastStart <= t /\ t < lastStart + Days(n)
                THEN lastStart
                ELSE At(DayOf(t) + 7 - daysSinceTarget, 8)
        IN  /\ call.result = Window(start, start + Days(n))
            /\ (TheEvent = Weekly("Friday", 3) /\ t = At(Jan1 + 17, 12))
                  => call.result = Window(At(Jan1 + 15, 8), At(Jan1 + 18, 8))
            /\ (TheEvent = Weekly("Friday", 3) /\ t = At(Jan1 + 19, 12))
                  => call.result.start = At(Jan1 + 22, 8) /\ ~Contains(call.result, t)

C10_Witness ==
    /\ AskedDates /\ AskedWeekly
    /\ TheEvent = Weekly("Friday", 3)
    /\ call.referenceDate = At(Jan1 + 17, 12)
    /\ Contains(call.result, call.referenceDate)

(* C11: when dayOfMonth exceeds the length of the reference's month (day 29, 30
   or 31 asked in February 2026), calculateMonthlyEvent does not fail and the
   start it announces is an instant at which the event is then returned as
   active: the announced occurrence takes place. *)
C11_AnnouncedOverflowStartTakesPlace ==
    (/\ AskedDates /\ AskedMonthly
     /\ parseInt(TheEvent.baseDate)
            > MonthLengths[MonthOfDay(DayOf(call.referenceDate))])
        => /\ ~call.result.threw
           /\ Contains(calculateRepeatingEventDates(TheEvent, call.result.start),
                       call.result.start)
           /\ RepeatingEntry(TheEvent, call.result.start) # <<>>

\* The calendar the last call returned, and its month in the written-out calendar
AskedCalendar == call.op = "getCalendarForMonth"
MonthIndex(year, month) == 12 * (year - 2026) + month + 2
AskedMonthStart == At(FirstDayOfMonth(MonthIndex(call.year, call.month)), 0)
AskedMonthEnd ==
    At(FirstDayOfMonth(MonthIndex(call.year, call.month))
           + MonthLengths[MonthIndex(call.year, call.month)], 0) - TicksPerSecond
InAskedMonth(t) == AskedMonthStart <= t /\ t <= AskedMonthEnd

\* How many markers of a kind the calendar holds for a title at an instant
MarkerCount(title, isStart, t) ==
    Cardinality({ i \in 1..Len(call.result) :
                    /\ call.result[i].title = title
                    /\ call.result[i].isStart = isStart
                    /\ call.result[i].isEnd = ~isStart
                    /\ call.result[i].fullDate = t })

\* The starts of the weekly occurrences around the asked month
WeeklyStartsAround(event) ==
    { EightOn(d) : d \in { d \in (DayOf(AskedMonthStart) - 14)..(DayOf(AskedMonthEnd) + 1) :
                             WeekdayName(d) = event.baseDate } }

(* C12: for a weekly definition, getCalendarForMonth(year, month) holds exactly
   one start marker for each weekly occurrence whose start lies in [monthStart,
   monthEnd], exactly one end marker for each occurrence whose end lies in it,
   and no other marker of that definition. *)
C12_WeeklyCalendarMarkers ==
    (AskedCalendar /\ AskedWeekly) =>
        LET n == TheEvent.durationDays
            starts == { s \in WeeklyStartsAround(TheEvent) : InAskedMonth(s) }
            ends == { s + Days(n) : s \in { s \in WeeklyStartsAround(TheEvent) :
                                              InAskedMonth(s + Days(n)) } }
        IN  /\ \A s \in starts : MarkerCount(TheEvent.title, TRUE, s) = 1
            /\ \A e \in ends : MarkerCount(TheEvent.title, FALSE, e) = 1
            /\ \A i \in 1..Len(call.result) :
                   IF call.result[i].isStart
                   THEN call.result[i].fullDate \in starts
                   ELSE call.result[i].fullDate \in ends

----------------------------------------------------------------------------
(* What the properties about the batch queries speak about *)

\* The definitions of a configuration in input order, repeating_events first,
\* each with the array it came from
AllDefs(config) ==
    (IF Has(config, "repeating_events")
     THEN [i \in 1..Len(config.repeating_events) |->
              [def |-> config.repeating_events[i], recurring |-> TRUE]]
     ELSE <<>>)
    \o (IF Has(config, "one_time_events")
        THEN [i \in 1..Len(config.one_time_events) |->
                 [def |-> config.one_time_events[i], recurring |-> FALSE]]
        ELSE <<>>)

\* The window of a definition at a reference instant
WindowAt(d, ref) ==
    IF d.recurring THEN calculateRepeatingEventDates(d.def, ref)
    ELSE Window(d.def.start, d.def.end)

Malformed(d) ==
    /\ d.recurring
    /\ \/ d.def.modifier \notin {"monthly", "weekly"}
       \/ d.def.modifier = "weekly" /\ d.def.baseDate \notin { daysOfWeek[i] : i \in 1..7 }

\* The place of the definition with a title among the definitions
PlaceOf(title) ==
    CHOOSE k \in 1..Len(AllDefs(eventsConfig)) : AllDefs(eventsConfig)[k].def.title = title

\* The definitions a query at ref has to consider: not switched off, with a window
Live(ref) ==
    { k \in 1..Len(AllDefs(eventsConfig)) :
        LET d == AllDefs(eventsConfig)[k]
        IN  /\ ~(Has(d.def, "active") /\ d.def.active = FALSE)
            /\ ~Malformed(d) }

(* C13: getActiveEvents(ref), computing afresh, returns exactly the definitions
   not marked active:false whose window contains ref (start <= ref < end), each
   with the countdown to its end, in ascending order of window end; definitions
   with equal ends keep the input order (repeating_events before one_time_events,
   each in configuration order). *)
C13_ActiveEventsExactAndOrdered ==
    (AskedActive /\ pc = "loaded" /\ heap[call.result].computedFor = call.currentDate) =>
        LET ref == call.currentDate
            defs == AllDefs(eventsConfig)
            active == { k \in Live(ref) :
                          WindowAt(defs[k], ref).start <= ref /\ ref < WindowAt(defs[k], ref).end }
        IN  /\ Len(Returned) = Cardinality(active)
            /\ \A k \in active :
                   \E i \in 1..Len(Returned) :
                       /\ Returned[i].title = defs[k].def.title
                       /\ Returned[i].start = WindowAt(defs[k], ref).start
                       /\ Returned[i].end = WindowAt(defs[k], ref).end
                       /\ Returned[i].countdown.totalMs = WindowAt(defs[k], ref).end - ref
            /\ \A i, j \in 1..Len(Returned) :
                   i < j => \/ Returned[i].end < Returned[j].end
                            \/ /\ Returned[i].end = Returned[j].end
                               /\ PlaceOf(Returned[i].title) < PlaceOf(Returned[j].title)

\* Flash ends first; the three definitions ending 2026-01-19T08:00Z follow in input order
C13_Witness ==
    /\ AskedActive /\ pc = "loaded"
    /\ heap[call.result].computedFor = call.currentDate
    /\ Len(Returned) = 4
    /\ Returned[1].title = "Flash"
    /\ Returned[2].title = "Raid Weekend"
    /\ Returned[3].title = "Gold Pass"
    /\ Returned[4].title = "Special"
    /\ Returned[2].end = Returned[4].end

AskedUpcoming == call.op = "getUpcomingEvents"

(* C14: getUpcomingEvents(ref, daysAhead) returns exactly the definitions not
   marked active:false whose window has start < ref + daysAhead days and
   end > ref, each marked isActive = (start <= ref < end), in ascending order of
   window start. *)
C14_UpcomingExactAndOrdered ==
    AskedUpcoming =>
        LET ref == call.currentDate
            horizon == ref + Days(call.daysAhead)
            defs == AllDefs(eventsConfig)
            due == { k \in Live(ref) :
                       WindowAt(defs[k], ref).start < horizon /\ WindowAt(defs[k], ref).end > ref }
        IN  /\ Len(call.result) = Cardinality(due)
            /\ \A k \in due :
                   \E i \in 1..Len(call.result) :
                       /\ call.result[i].title = defs[k].def.title
                       /\ call.result[i].start = WindowAt(defs[k], ref).start
                       /\ call.result[i].end = WindowAt(defs[k], ref).end
                       /\ call.result[i].isActive
                              = (WindowAt(defs[k], ref).start <= ref
                                    /\ ref < WindowAt(defs[k], ref).end)
            /\ \A i, j \in 1..Len(call.result) :
                   i < j => call.result[i].start <= call.result[j].start

AskedIsActive == call.op = "isEventActive"

(* C15: isEventActive(title, ref) is true exactly when some definition with
   that title, not marked active:false, has ref inside its window [start, end),
   whatever queries were made on the manager before. *)
C15_IsEventActiveExact ==
    (AskedIsActive /\ pc = "loaded") =>
        LET ref == call.currentDate
            defs == AllDefs(eventsConfig)
        IN  call.result
                = (\E k \in Live(ref) :
                       /\ defs[k].def.title = call.eventTitle
                       /\ WindowAt(defs[k], ref).start <= ref
                       /\ ref < WindowAt(defs[k], ref).end)

AskedCountdown == call.op = "calculateCountdown"

(* C16: calculateCountdown(end, ref) has all fields zero when end <= ref;
   otherwise totalMs = end - ref, hours is in 0..23, minutes and seconds in
   0..59, and days, hours, minutes, seconds are the floor decomposition of
   totalMs: their sum in milliseconds is <= totalMs < that sum + 1000. *)
C16_CountdownDecomposition ==
    AskedCountdown =>
        LET c == call.result
            sum == c.days * TicksPerDay + c.hours * TicksPerHour
                       + c.minutes * TicksPerMinute + c.seconds * TicksPerSecond
        IN  IF call.endDate <= call.currentDate
            THEN c = [days |-> 0, hours |-> 0, minutes |-> 0, seconds |-> 0, totalMs |-> 0]
            ELSE /\ c.totalMs = call.endDate - call.currentDate
                 /\ c.days >= 0
                 /\ c.hours \in 0..23
                 /\ c.minutes \in 0..59
                 /\ c.seconds \in 0..59
                 /\ sum <= c.totalMs
                 /\ c.totalMs < sum + TicksPerSecond

\* 1 day 23 h 59 min 59 s and a fraction of a second remain
C16_Witness ==
    /\ AskedCountdown
    /\ call.endDate - call.currentDate
           = 2 * TicksPerDay - 1
    /\ call.result.days = 1 /\ call.result.hours = 23
    /\ call.result.minutes = 59 /\ call.result.seconds = 59

\* The titles of the definitions marked active: false
SwitchedOff ==
    { AllDefs(eventsConfig)[k].def.title :
        k \in { k \in 1..Len(AllDefs(eventsConfig)) :
                  /\ Has(AllDefs(eventsConfig)[k].def, "active")
                  /\ AllDefs(eventsConfig)[k].def.active = FALSE } }

\* The entries the last batch query returned
BatchResult ==
    IF AskedActive THEN Returned
    ELSE IF AskedUpcoming \/ AskedCalendar THEN call.result
    ELSE <<>>

(* C17: a definition with active: false never appears in the result of
   getActiveEvents, getUpcomingEvents or getCalendarForMonth, at any reference
   instant or month, whatever its dates. *)
C17_SwitchedOffNeverListed ==
    (pc = "loaded") =>
        \A i \in 1..Len(BatchResult) : BatchResult[i].title \notin SwitchedOff

\* A query over the days of a switched-off definition's window: at the reference
\* instant the weekly Saturday / 2 days definition "Retired" is in its occurrence,
\* and the calendar of January 2026 holds markers of the definitions beside it
C17_Witness ==
    /\ pc = "loaded"
    /\ "Retired" \in SwitchedOff
    /\ \/ /\ AskedActive
          /\ call.currentDate = QueryBase
          /\ Contains(calculateRepeatingEventDates([Retired EXCEPT !.active = TRUE],
                                                   QueryBase), QueryBase)
          /\ Len(Returned) = 4
       \/ /\ AskedCalendar
          /\ call.year = 2026 /\ call.month = 0
          /\ Len(call.result) > 0

(* C18: in getActiveEvents, getUpcomingEvents and getCalendarForMonth a
   definition whose window computation raises (a modifier that is neither
   "monthly" nor "weekly", or a weekly baseDate that is no day name) is skipped,
   the query still returns, and the entries returned are those the query returns
   for the configuration without the malformed definitions. *)
WithoutMalformed(config) ==
    IF Has(config, "repeating_events")
    THEN [config EXCEPT !.repeating_events =
             SelectSeq(config.repeating_events,
                       LAMBDA e : ~Malformed([def |-> e, recurring |-> TRUE]))]
    ELSE config

C18_MalformedSkipped ==
    (pc = "loaded") =>
        /\ AskedActive =>
               Returned = ComputeActiveEvents(WithoutMalformed(eventsConfig),
                                              heap[call.result].computedFor)
        /\ AskedUpcoming =>
               call.result = getUpcomingEvents(WithoutMalformed(eventsConfig),
                                               call.currentDate, call.daysAhead,
                                               call.timeZone)
        /\ AskedCalendar =>
               call.result = getCalendarForMonth(WithoutMalformed(eventsConfig),
                                                 call.year, call.month)
        /\ \A i \in 1..Len(BatchResult) :
               BatchResult[i].title \notin
                   { AllDefs(eventsConfig)[k].def.title :
                       k \in { k \in 1..Len(AllDefs(eventsConfig)) :
                                 Malformed(AllDefs(eventsConfig)[k]) } }

\* The configuration holds a malformed definition among others, and the query
\* at the reference instant returns the active ones of the others
C18_Witness ==
    /\ pc = "loaded"
    /\ AskedActive
    /\ call.currentDate = QueryBase
    /\ \E k \in 1..Len(AllDefs(eventsConfig)) : Malformed(AllDefs(eventsConfig)[k])
    /\ Len(Returned) >= 2

\* The definitions of a configuration, whichever copy of the manager reads it
ArrayOf(config, name) == IF Has(config, name) THEN config[name] ELSE <<>>
RecurringOf(config) == ArrayOf(config, "repeating_events")
FixedOf(config) ==
    ArrayOf(config, "one_time_events") \o ArrayOf(config, "non_repeating_events")

Loaded == call.op = "loadEvents"

\* The invariant of the data model
DataModelHolds(config) ==
    /\ \A i \in 1..Len(RecurringOf(config)) :
           LET e == RecurringOf(config)[i]
           IN  /\ Has(e, "title") /\ e.title # ""
               /\ Has(e, "durationDays") /\ e.durationDays > 0
    /\ \A i \in 1..Len(FixedOf(config)) :
           LET e == FixedOf(config)[i]
           IN  /\ Has(e, "title") /\ e.title # ""
               /\ Has(e, "start") /\ Has(e, "end") /\ e.end > e.start

(* C19: after loadEvents has resolved, every stored definition has a non-empty
   title, durationDays > 0 if it is recurring and end > start if it is fixed; a
   configuration that violates one of these makes loadEvents reject. *)
C19_LoadedDefinitionsAreValid ==
    Loaded =>
        /\ call.result = "resolved" => DataModelHolds(eventsConfig)
        /\ ~DataModelHolds(call.source) => call.result = "rejected"

\* A definition with a recurrence rule and explicit bounds at once
Ambiguous(e) ==
    /\ Has(e, "baseDate") \/ Has(e, "modifier") \/ Has(e, "durationDays")
    /\ Has(e, "start") \/ Has(e, "end")

(* C20: loadEvents rejects a configuration that holds a definition with both a
   recurrence rule (baseDate / modifier / durationDays) and explicit start / end
   bounds. *)
C20_AmbiguousDefinitionRejected ==
    (/\ Loaded
     /\ \E i \in 1..Len(RecurringOf(call.source) \o FixedOf(call.source)) :
            Ambiguous((RecurringOf(call.source) \o FixedOf(call.source))[i]))
        => call.result = "rejected"

----------------------------------------------------------------------------
(* What the properties about the ignoreDate copy speak about *)

ByIgnoreDateCopy == pc = "loaded by the ignoreDate copy"

\* The definitions of a configuration of the ignoreDate copy, in input order
IgnoreDateDefs(config) ==
    ArrayOf(config, "repeating_events") \o ArrayOf(config, "non_repeating_events")

\* A complete recurrence rule and explicit bounds at once
HasRuleAndBounds(e) ==
    /\ Has(e, "baseDate") /\ Has(e, "modifier") /\ Has(e, "durationDays")
    /\ Has(e, "start") /\ Has(e, "end")

Flagged(e) == Has(e, "ignoreDate") /\ e.ignoreDate = TRUE

\* The entries of a list that bear a title
EntriesOf(list, title) == { i \in 1..Len(list) : list[i].title = title }

(* C21: in getActiveEvents and getUpcomingEvents of the ignoreDate copy a
   definition with a complete recurrence rule and explicit start / end is
   resolved by the recurrence rule when its ignoreDate flag is set, and by its
   explicit start / end, verbatim, when it is not. *)
C21_HybridPrecedence ==
    (ByIgnoreDateCopy /\ (AskedActive \/ AskedUpcoming)) =>
        LET list == IF AskedActive THEN Returned ELSE call.result
            ref == IF AskedActive THEN heap[call.result].computedFor ELSE call.currentDate
            defs == IgnoreDateDefs(eventsConfig)
        IN  \A k \in 1..Len(defs) :
                (HasRuleAndBounds(defs[k]) /\ ~Inactive(defs[k])) =>
                    LET e == defs[k]
                        w == IF Flagged(e)
                             THEN calculateRepeatingEventDates(e, ref)
                             ELSE Window(e.start, e.end)
                    IN  /\ \A i \in EntriesOf(list, e.title) :
                               list[i].start = w.start /\ list[i].end = w.end
                        /\ (w.start <= ref /\ ref < w.end)
                               => Cardinality(EntriesOf(list, e.title)) = 1
                        /\ (AskedActive /\ ~(w.start <= ref /\ ref < w.end))
                               => EntriesOf(list, e.title) = {}

\* On Wednesday 2026-01-14 12:00 the flagged definition is upcoming with the
\* occurrence of Friday 16, the unflagged one is active with its explicit bounds
C21_Witness ==
    /\ ByIgnoreDateCopy /\ AskedUpcoming
    /\ call.currentDate = DateUTC(2026, 0, 14, 12, 0, 0, 0)
    /\ \E i, j \in 1..Len(call.result) :
           /\ call.result[i].title = "Flagged"
           /\ call.result[i].start = At(Jan1 + 15, 8)
           /\ ~call.result[i].isActive
           /\ call.result[j].title = "Unflagged"
           /\ call.result[j].start = At(Jan1 + 12, 8)
           /\ call.result[j].isActive

----------------------------------------------------------------------------
(* Properties of the manager as a whole *)

\* The cache is left as it was: the same list, with the same entries, for the
\* same instant
CacheUnchanged ==
    /\ cachedActiveEvents' = cachedActiveEvents
    /\ lastUpdateTime' = lastUpdateTime
    /\ cachedActiveEvents # Null =>
           heap'[cachedActiveEvents[1]] = heap[cachedActiveEvents[1]]

(* C22: the active-events cache is the only state a query changes:
   getUpcomingEvents and getCalendarForMonth leave the cache unchanged,
   getActiveEvents on a manager without configuration returns an empty list and
   leaves the cache unchanged, and no query changes the loaded definitions. *)
C22_QueriesChangeOnlyTheCache ==
    [][ /\ call'.op \in {"getActiveEvents", "getUpcomingEvents", "getCalendarForMonth",
                         "isEventActive"}
            => eventsConfig' = eventsConfig
        /\ call'.op \in {"getUpcomingEvents", "getCalendarForMonth"} => CacheUnchanged
        /\ (call'.op = "getActiveEvents" /\ eventsConfig = Null)
            => /\ heap'[call'.result].items = <<>>
               /\ CacheUnchanged ]_vars

\* getUpcomingEvents answered while a list of active events is cached
C22_Witness ==
    /\ AskedUpcoming
    /\ Len(call.result) > 0
    /\ cachedActiveEvents # Null
    /\ Len(heap[cachedActiveEvents[1]].items) > 0


----------------------------------------------------------------------------
(* The clan export that loadClanData hands back *)

\* The export a storage holds, as parsed; Null when it holds none or text that does not parse
StoredExport(storage) ==
    IF CACHE_KEYS.CLAN_DATA \notin DOMAIN storage THEN Null
    ELSE LET parsed == JSONparse(storage[CACHE_KEYS.CLAN_DATA])
         IN  IF parsed.threw THEN Null ELSE parsed.value

\* The export carries a timestamp in Unix seconds, between 2020 and 2100
HasUnixSeconds(export) ==
    /\ export # Null
    /\ export.type = "object"
    /\ Has(export, "timestamp")
    /\ ~isNaN(Number(export.timestamp))
    /\ Number(export.timestamp).value >= Unix(1577836800)
    /\ Number(export.timestamp).value <= Unix(2051222400) + 2051222400   \* 2100-01-01

\* The export was made at most 24 hours = 86,400 s before the instant at
AtMostADayOld(export, at) ==
    LET age == at.s - Number(export.timestamp).value
    IN  age < 86400 \/ (age = 86400 /\ at.ms = 0)

\* C23: loadClanData answers 'valid', with the parsed data, only if the storage held
\* data that parse and carry a valid Unix-seconds timestamp at most 24 hours
\* (86,400 s) before the load; stored data older than that are answered 'expired',
\* without data -- whatever saveClanData, clearClanData and the clock did before.
C23_ValidOnlyWithinADay ==
    call.op = "loadClanData" =>
        LET export == StoredExport(call.found)
        IN  /\ call.result.status = "valid" =>
                /\ call.available
                /\ HasUnixSeconds(export)
                /\ AtMostADayOld(export, call.at)
                /\ call.result.data = export
            /\ (call.available /\ HasUnixSeconds(export) /\ ~AtMostADayOld(export, call.at)) =>
                /\ call.result.status = "expired"
                /\ ~Has(call.result, "data")

\* a load one millisecond after the stored export became 24 hours old
C23_Witness ==
    /\ call.op = "loadClanData"
    /\ call.available
    /\ HasUnixSeconds(StoredExport(call.found))
    /\ call.at.s - Number(StoredExport(call.found).timestamp).value = 86400
    /\ call.at.ms = 1
    /\ call.result.status = "expired"


----------------------------------------------------------------------------
(* The size of the image cache *)

\* every fetch event handed to the worker has been handled to its end
Quiescent ==
    /\ pc = "worker"
    /\ \A e \in DOMAIN fetchEvents : Handler(e).at \in {"not dispatched", "done"}

\* C24: whenever every started fetch handler, and the cleanupCache it called, has
\* completed, the image cache holds at most MAX_CACHE_ITEMS entries -- for every
\* interleaving of the handlers.
C24_CacheWithinLimitWhenQuiescent ==
    Quiescent => Len(imageCache) <= MAX_CACHE_ITEMS


----------------------------------------------------------------------------
(* The monthly markers of the calendar *)

\* The markers of a kind the calendar holds for a title
MarkersOf(title, isStart) ==
    { i \in 1..Len(call.result) :
        /\ call.result[i].title = title
        /\ call.result[i].isStart = isStart
        /\ call.result[i].isEnd = ~isStart }

\* The asked month has a day d
DayExists(d) == d <= MonthLengths[MonthIndex(call.year, call.month)]

\* 08:00 UTC on day d of the asked month
EightOnDay(d) == EightOn(FirstDayOfMonth(MonthIndex(call.year, call.month)) + d - 1)

(* C25: for a monthly definition that is not switched off and whose dayOfMonth d
   exists in the asked month, getCalendarForMonth holds exactly one start marker,
   dated day d 08:00 UTC of that month -- also for d = 1 -- and an end marker
   exactly when the end of that occurrence falls within the month. *)
C25_MonthlyCalendarMarkers ==
    (/\ AskedCalendar /\ AskedMonthly
     /\ ~Inactive(TheEvent)
     /\ DayExists(parseInt(TheEvent.baseDate)))
        => LET d == parseInt(TheEvent.baseDate)
               start == EightOnDay(d)
               end == start + Days(TheEvent.durationDays)
           IN  /\ Cardinality(MarkersOf(TheEvent.title, TRUE)) = 1
               /\ MarkerCount(TheEvent.title, TRUE, start) = 1
               /\ \A i \in MarkersOf(TheEvent.title, TRUE) : call.result[i].date = d
               /\ IF end <= AskedMonthEnd
                  THEN /\ Cardinality(MarkersOf(TheEvent.title, FALSE)) = 1
                       /\ MarkerCount(TheEvent.title, FALSE, end) = 1
                  ELSE MarkersOf(TheEvent.title, FALSE) = {}


----------------------------------------------------------------------------
(* Loading a configuration and the cached list *)

(* C26: after loadEvents has succeeded, the next getActiveEvents with
   forceRefresh = false returns a list computed from the configuration just
   loaded -- also when its reference is less than 1000 ms after the instant of a
   list cached under the configuration loaded before. *)
C26_NextQueryUsesNewConfiguration ==
    [][ (/\ call.op = "loadEvents" /\ call.result = "resolved"
         /\ call'.op = "getActiveEvents" /\ ~call'.forceRefresh)
          => heap'[call'.result].items =
                 ComputeActiveEvents(eventsConfig', heap'[call'.result].computedFor)
      ]_vars


(* C27: a loadEvents that rejects because validation fails leaves the stored
   configuration as it was, so that later queries go on using the configuration
   loaded before (or answer [] if there was none), never the rejected one. *)
C27_RejectedLoadKeepsConfiguration ==
    [][ (call'.op = "loadEvents" /\ call'.result = "rejected")
          => eventsConfig' = eventsConfig
      ]_vars


----------------------------------------------------------------------------
(* The windows of a recurrence rule as the reference moves on *)

\* The reference instants of the grid from r on, up to two days later
Following(r) == { r2 \in Refs : r <= r2 /\ r2 <= r + Days(2) }

(* C28: for one recurring definition and references r1 <= r2, the window computed
   for r2 does not start before the window computed for r1: window starts never
   move backwards as the reference advances. *)
C28_WindowStartsAreMonotone ==
    (AskedDates /\ ~call.result.threw) =>
        \A r2 \in Following(call.referenceDate) :
            call.result.start <= calculateRepeatingEventDates(TheEvent, r2).start


(* C29: every window computed for a recurring definition with durationDays > 0
   starts at exactly 08:00:00.000 UTC -- on the target weekday for a weekly
   definition, on day dayOfMonth for a monthly one whenever that day exists in
   the month of the start -- lasts exactly durationDays * 24 hours, and ends
   strictly after the reference. *)
C29_WindowShape ==
    (AskedDates /\ ~call.result.threw /\ TheEvent.durationDays > 0) =>
        LET start == call.result.start
            end == call.result.end
        IN  /\ start = EightOn(DayOf(start))
            /\ AskedWeekly => WeekdayName(DayOf(start)) = TheEvent.baseDate
            /\ (AskedMonthly /\ parseInt(TheEvent.baseDate)
                                    <= MonthLengths[MonthOfDay(DayOf(start))])
                   => DateFromDay(DayOf(start)) = parseInt(TheEvent.baseDate)
            /\ end - start = TheEvent.durationDays * 24 * TicksPerHour
            /\ end > call.referenceDate


----------------------------------------------------------------------------
(* One strategy for the three batch queries of the ignoreDate copy *)

\* The calendar the last call returned holds markers for the definition, and
\* their dates were computed from its recurrence rule at the start of the month
MarkersFromRule(e) ==
    /\ EntriesOf(call.result, e.title) # {}
    /\ ~Inactive(e)
    /\ Has(e, "modifier")
    /\ IgnoreDateCalendarDates(e, AskedMonthStart)
           = calculateRepeatingEventDates(e, AskedMonthStart) @@ [none |-> FALSE]
    /\ ~(UsesExplicitDates(e) /\ ~CalendarUsesRecurrenceRule(e))

\* getActiveEvents and getUpcomingEvents evaluate the definition from its rule
EvaluatedFromRule(e, ref) ==
    IgnoreDateDates(e, ref) = calculateRepeatingEventDates(e, ref) @@ [none |-> FALSE]

(* C30: the three batch queries of the ignoreDate copy resolve a definition by
   the same strategy: a definition for which getCalendarForMonth emits markers
   computed from its recurrence rule is evaluated from that rule, not passed
   over, by getActiveEvents and getUpcomingEvents; and a weekly definition is
   enumerated occurrence by occurrence in the calendar whenever the other two
   queries treat it as weekly. *)
C30_OneStrategyForAllQueries ==
    (ByIgnoreDateCopy /\ AskedCalendar) =>
        LET defs == IgnoreDateDefs(eventsConfig)
        IN  \A k \in 1..Len(defs) :
                /\ MarkersFromRule(defs[k]) =>
                       \A ref \in IgnoreDateRefs : EvaluatedFromRule(defs[k], ref)
                /\ (/\ ~Inactive(defs[k])
                    /\ UsesRecurrenceRule(defs[k])
                    /\ defs[k].modifier = "weekly")
                       => CalendarEnumeratesWeekly(defs[k])

====
